---- MODULE Spec2Model ----
(***************************************************************************)
(* A model of benoitkugler/oksvg: the SVG-to-path compiler of package      *)
(* svgicon (ReadIconStream, the style stack, <defs> recording and <use>    *)
(* replay) and the path replay of SvgIcon.Draw onto a Driver.              *)
(*                                                                         *)
(* Strings that the code slices or tests for a prefix (ids, href) are      *)
(* sequences of one-character strings; coordinates are fixed.Int26_6       *)
(* values (user units times 64).                                           *)
(***************************************************************************)
EXTENDS Integers, Sequences, FiniteSets, TLC

\* ------------------------------------------------------------------ bounds

\* Start elements read from one document.
MaxStarts == 6

\* Nesting depth of open elements in one document.
MaxDepth == 4

\* Start elements and nesting depth of one document of Spec.
MaxUseStarts == 5

MaxUseDepth == 3

\* The most paths an icon handed to Draw holds.
MaxDrawPaths == 2

\* Start elements read from one document of shapes.
MaxShapeStarts == 3

\* The SvgPaths of an icon that is drawn concurrently.
MaxConcPaths == 2

\* Start elements read from one document of styled elements.
MaxStyleStarts == 2

\* Stops of a gradient of the table, and fill or stroke attributes read
\* against it.
MaxStops == 2
MaxResolves == 3

\* Calls of the methods of one pather.
MaxPdfCalls == 3

\* ------------------------------------------------------- values and styles

NoAttr == "-"

ErrorModes == {"Strict", "Warn", "Ignore"}

Identity == [A |-> 1, B |-> 0, C |-> 0, D |-> 1, E |-> 0, F |-> 0]

DefaultStyle ==
    [FillerColor |-> "black", LinerColor |-> "nil",
     UseNonZeroWinding |-> TRUE, Dash |-> <<>>, transform |-> Identity]

\* a.Mult(b): the transform b followed by the transform a.
Mult(a, b) ==
    [A |-> a.A * b.A + a.C * b.B,
     B |-> a.B * b.A + a.D * b.B,
     C |-> a.A * b.C + a.C * b.D,
     D |-> a.B * b.C + a.D * b.D,
     E |-> a.A * b.E + a.C * b.F + a.E,
     F |-> a.B * b.E + a.D * b.F + a.F]

Translate(m, tx, ty) ==
    Mult(m, [A |-> 1, B |-> 0, C |-> 0, D |-> 1, E |-> tx, F |-> ty])

Scale(m, sx, sy) ==
    Mult(m, [A |-> sx, B |-> 0, C |-> 0, D |-> sy, E |-> 0, F |-> 0])

\* Angles are whole degrees; the model uses those whose sine, cosine and
\* tangent are whole numbers.
Cos(deg) == CASE deg % 360 = 0 -> 1 [] deg % 360 = 180 -> -1 [] OTHER -> 0

Sin(deg) == CASE deg % 360 = 90 -> 1 [] deg % 360 = 270 -> -1 [] OTHER -> 0

Tan(deg) == CASE deg % 180 = 45 -> 1 [] deg % 180 = 135 -> -1 [] OTHER -> 0

Rotate(m, deg) ==
    Mult(m, [A |-> Cos(deg), B |-> Sin(deg), C |-> -Sin(deg), D |-> Cos(deg),
             E |-> 0, F |-> 0])

SkewX(m, deg) ==
    Mult(m, [A |-> 1, B |-> 0, C |-> Tan(deg), D |-> 1, E |-> 0, F |-> 0])

SkewY(m, deg) ==
    Mult(m, [A |-> 1, B |-> Tan(deg), C |-> 0, D |-> 1, E |-> 0, F |-> 0])

fToFixed(f) == f * 64

\* The zero value of Bounds.
NoBounds == [X |-> 0, Y |-> 0, W |-> 0, H |-> 0]

\* The element names of the dispatch table.
drawFuncs ==
    {"svg", "g", "line", "stop", "rect", "circle", "ellipse", "polyline",
     "polygon", "path", "desc", "defs", "title", "linearGradient",
     "radialGradient", "use"}

\* A list attribute (points, viewBox): whether the element carries it, and
\* the numbers its value holds.
NoList == [given |-> FALSE, nums |-> <<>>]

List(nums) == [given |-> TRUE, nums |-> nums]

\* The stroke-dasharray attribute: absent, "none", or a list of numbers.
NoDash == [given |-> FALSE, none |-> FALSE, nums |-> <<>>]

DashNone == [given |-> TRUE, none |-> TRUE, nums |-> <<>>]

Dashes(nums) == [given |-> TRUE, none |-> FALSE, nums |-> nums]

\* One func(args) chunk of a transform attribute.
Fn(name, args) == [name |-> name, args |-> args]

\* A start element with the attributes the model reads.  id and href are
\* character sequences, <<>> when the attribute is absent; emptyId tells an
\* id="" from an absent id.  width and height are 1 unless changed; r, x2
\* and y2 are 0 (absent) unless changed; x and y also stand for cx and cy of
\* a circle and x1 and y1 of a line; order lists the names of the attributes of an
\* <svg> element in document order; transform lists the chunks of the
\* transform attribute, <<>> when it is absent; rule is the value of fill-rule;
\* badX tells that the value of x is not a number.
El(tag, id, href, x, y, fill, stroke) ==
    [tag |-> tag, id |-> id, href |-> href, x |-> x, y |-> y,
     w |-> 1, h |-> 1, fill |-> fill, stroke |-> stroke,
     emptyId |-> FALSE, r |-> 0, x2 |-> 0, y2 |-> 0, points |-> NoList,
     viewBox |-> NoList, order |-> <<>>, dash |-> NoDash, transform |-> <<>>,
     rule |-> NoAttr, badX |-> FALSE]

IdA == <<"a">>
IdB == <<"b">>

\* The start elements documents are built from: those read while <defs>
\* records, and those read while elements are dispatched.
DefElems ==
    { El("g", IdA, <<>>, 0, 0, NoAttr, "blue"),
      El("rect", <<>>, <<>>, 0, 0, NoAttr, NoAttr),
      El("rect", IdB, <<>>, 0, 0, "red", NoAttr),
      El("use", IdA, <<"#", "b">>, 1, 1, NoAttr, NoAttr),
      El("foo", <<>>, <<>>, 0, 0, NoAttr, NoAttr),
      El("foo", IdA, <<>>, 0, 0, NoAttr, NoAttr) }

TopElems ==
    { El("defs", <<>>, <<>>, 0, 0, NoAttr, NoAttr),
      El("g", <<>>, <<>>, 0, 0, "red", NoAttr),
      El("rect", <<>>, <<>>, 2, 2, "none", "blue"),
      El("use", <<>>, <<"#", "a">>, 5, 3, NoAttr, NoAttr),
      El("use", <<>>, <<"#", "b">>, 5, 3, NoAttr, NoAttr),
      El("use", <<>>, <<>>, 0, 0, NoAttr, NoAttr),
      El("use", <<>>, <<"a">>, 0, 0, NoAttr, NoAttr),
      El("foo", <<>>, <<>>, 0, 0, NoAttr, NoAttr) }

Elems == DefElems \cup TopElems

\* Elements that documents always write as empty elements (<rect/>).
Leaves == {"rect", "use", "circle", "line", "polyline", "polygon"}

Plain(tag) == El(tag, <<>>, <<>>, 0, 0, NoAttr, NoAttr)

\* Root <svg> elements: viewBox, width="8" and height="6" in several orders,
\* the viewBox with an origin, with a zero width, or one number short.
SvgElems ==
    { [Plain("svg") EXCEPT !.viewBox = List(vb), !.w = 8, !.h = 6, !.order = o] :
        vb \in { <<0, 0, 4, 4>>, <<1, 2, 4, 2>>, <<1, 2, 0, 2>>, <<0, 0, 4>> },
        o \in { <<"viewBox">>, <<"viewBox", "width", "height">>,
                <<"width", "height", "viewBox">> } }
    \cup { [Plain("svg") EXCEPT !.w = 8, !.h = 6, !.order = <<"width", "height">>] }

\* Lists of the points attribute: one, two and three pairs, and odd counts.
PointLists ==
    { <<1, 1>>, <<1, 1, 2, 3>>, <<1, 1, 2, 3, 4, 1>>, <<1, 1, 2>>,
      <<1, 1, 2, 3, 4>> }

\* The shapes, groups and gradients documents of SpecShapes are built from.
ShapeElems ==
    { El("g", <<>>, <<>>, 0, 0, "red", NoAttr),
      Plain("g"),
      Plain("rect"),
      [Plain("rect") EXCEPT !.w = 0],
      Plain("circle"),
      [El("circle", <<>>, <<>>, 2, 2, NoAttr, NoAttr) EXCEPT !.r = 1],
      [El("line", <<>>, <<>>, 1, 1, "none", "blue") EXCEPT !.x2 = 3, !.y2 = 2],
      [Plain("linearGradient") EXCEPT !.emptyId = TRUE],
      [Plain("radialGradient") EXCEPT !.emptyId = TRUE] }
    \cup { [Plain(t) EXCEPT !.points = List(ps)] :
             t \in {"polyline", "polygon"}, ps \in PointLists }

\* The arguments of a transform function: none, or the first n of a list
\* that starts with an angle.
Args(n) == SubSeq(<<180, 2, 3, 4, 5, 6, 7>>, 1, n)

TransformNames == {"translate", "scale", "rotate", "skewX", "skewY", "matrix", "foo"}

\* The elements documents of SpecStyle are built from: a root with a
\* viewBox, dash arrays set and cleared, every transform function with none
\* to seven arguments, and polylines with and without points.
StyleElems ==
    { [Plain("svg") EXCEPT !.viewBox = List(<<0, 0, 4, 4>>), !.order = <<"viewBox">>],
      [Plain("g") EXCEPT !.dash = Dashes(<<4, 2>>)],
      [Plain("rect") EXCEPT !.dash = DashNone],
      [Plain("rect") EXCEPT !.dash = Dashes(<<1>>)],
      Plain("rect"),
      [Plain("rect") EXCEPT !.rule = "evenodd"],
      [Plain("rect") EXCEPT !.transform = <<Fn("scale", <<2, 2>>)>>],
      [Plain("rect") EXCEPT !.transform = <<Fn("translate", <<1, 2>>),
                                            Fn("scale", <<3>>)>>],
      Plain("polyline"),
      Plain("polygon"),
      [Plain("polyline") EXCEPT !.points = List(<<1, 1, 2, 3, 4, 1>>)],
      [Plain("polyline") EXCEPT !.transform = <<Fn("matrix", Args(6))>>],
      [Plain("polygon") EXCEPT !.transform = <<Fn("translate", <<1, 2>>)>>] }
    \cup { [Plain("rect") EXCEPT !.transform = <<Fn(f, Args(n))>>] :
             f \in TransformNames, n \in 0..7 }

\* ------------------------------------------------------------ path cursor

MoveTo(x, y) == [op |-> "M", pts |-> << <<x, y>> >>]
LineTo(x, y) == [op |-> "L", pts |-> << <<x, y>> >>]
QuadTo(b, c) == [op |-> "Q", pts |-> <<b, c>>]
CubicTo(b, c, d) == [op |-> "C", pts |-> <<b, c, d>>]
Close == [op |-> "Z", pts |-> <<>>]

\* AddRect with rot = 0: the four corners, closed.
AddRect(minX, minY, maxX, maxY) ==
    << MoveTo(fToFixed(minX), fToFixed(minY)),
       LineTo(fToFixed(maxX), fToFixed(minY)),
       LineTo(fToFixed(maxX), fToFixed(maxY)),
       LineTo(fToFixed(minX), fToFixed(maxY)),
       Close >>

\* ---------------------------------------------------------- style cascade

parseSVGColor(v) == IF v = "none" THEN "nil" ELSE v

\* A step of the parser returns the cursor and an error ("" for nil).  The
\* error "panic" is a Go run-time panic (slicing or indexing an empty stack).
Ret(c, err) == [c |-> c, err |-> err]

\* c.getPoints(value): the numbers of the list replace the buffer c.points.
getPoints(c, nums) == [c EXCEPT !.points = nums]

\* The result of a transform step: the matrix so far, the cursor (its
\* buffer c.points holds the numbers read last) and the error.
MRet(m, c, err) == [m |-> m, c |-> c, err |-> err]

\* A readTransformAttr that takes any function with any number of arguments.
readTransformAttrLoose(c, m1, k) == MRet(m1, c, "")

\* readTransformAttr: the function k applied to the numbers in c.points.
\* k is in lower case, as parseTransform hands it over.
readTransformAttr(c, m1, k) ==
    LET ln == Len(c.points)
        pt == c.points
    IN CASE k = "rotate" ->
              IF ln = 1 THEN MRet(Rotate(m1, pt[1]), c, "")
              ELSE IF ln = 3
              THEN MRet(Translate(Rotate(Translate(m1, pt[2], pt[3]), pt[1]),
                                  -pt[2], -pt[3]), c, "")
              ELSE MRet(m1, c, "errParamMismatch")
         [] k = "translate" ->
              IF ln = 1 THEN MRet(Translate(m1, pt[1], 0), c, "")
              ELSE IF ln = 2 THEN MRet(Translate(m1, pt[1], pt[2]), c, "")
              ELSE MRet(m1, c, "errParamMismatch")
         [] k = "skewx" ->
              IF ln = 1 THEN MRet(SkewX(m1, pt[1]), c, "")
              ELSE MRet(m1, c, "errParamMismatch")
         [] k = "skewy" ->
              IF ln = 1 THEN MRet(SkewY(m1, pt[1]), c, "")
              ELSE MRet(m1, c, "errParamMismatch")
         [] k = "scale" ->
              IF ln = 1 THEN MRet(Scale(m1, pt[1], 0), c, "")
              ELSE IF ln = 2 THEN MRet(Scale(m1, pt[1], pt[2]), c, "")
              ELSE MRet(m1, c, "errParamMismatch")
         [] k = "matrix" ->
              IF ln = 6
              THEN MRet(Mult(m1, [A |-> pt[1], B |-> pt[2], C |-> pt[3],
                                  D |-> pt[4], E |-> pt[5], F |-> pt[6]]), c, "")
              ELSE MRet(m1, c, "errParamMismatch")
         [] OTHER -> MRet(m1, c, "errParamMismatch")

\* strings.ToLower on the function names documents use.
ToLower(name) ==
    CASE name = "skewX" -> "skewx"
      [] name = "skewY" -> "skewy"
      [] name = "SCALE" -> "scale"
      [] OTHER -> name

\* The loop of parseTransform over the chunks ts[i..]: a chunk without
\* arguments is badly formed, the others go through getPoints and
\* readTransformAttr.
RECURSIVE transformChunks(_, _, _, _)
transformChunks(c, ts, i, m1) ==
    IF i > Len(ts) THEN MRet(m1, c, "")
    ELSE IF Len(ts[i].args) < 1 THEN MRet(m1, c, "errParamMismatch")
    ELSE LET r == readTransformAttr(getPoints(c, ts[i].args), m1,
                                    ToLower(ts[i].name))
         IN IF r.err # "" THEN r ELSE transformChunks(r.c, ts, i + 1, r.m)

\* parseTransform starts from the transform on top of the style stack.
parseTransform(c, ts) ==
    transformChunks(c, ts, 1, c.styleStack[Len(c.styleStack)].transform)

\* The result of readStyleAttr: the style, the cursor and the error.
SRet(st, c, err) == [st |-> st, c |-> c, err |-> err]

\* A readStyleAttr with a case for fill-rule, which sets the winding rule.
readStyleAttrFillRule(c, curStyle, k, v) ==
    CASE k = "fill" -> SRet([curStyle EXCEPT !.FillerColor = parseSVGColor(v)], c, "")
      [] k = "stroke" -> SRet([curStyle EXCEPT !.LinerColor = parseSVGColor(v)], c, "")
      [] k = "fill-rule" ->
           SRet([curStyle EXCEPT !.UseNonZeroWinding = (v = "nonzero")], c, "")
      [] OTHER -> SRet(curStyle, c, "")

\* readStyleAttr on an attribute the element carries.  v is the value of
\* the attribute: a colour, a stroke-dasharray, the chunks of a transform.
readStyleAttr(c, curStyle, k, v) ==
    CASE k = "fill" -> SRet([curStyle EXCEPT !.FillerColor = parseSVGColor(v)], c, "")
      [] k = "stroke" -> SRet([curStyle EXCEPT !.LinerColor = parseSVGColor(v)], c, "")
      [] k = "stroke-dasharray" ->
           IF ~v.none THEN SRet([curStyle EXCEPT !.Dash = v.nums], c, "")
           ELSE SRet(curStyle, c, "")
      [] k = "transform" ->
           LET r == parseTransform(c, v)
           IN IF r.err # "" THEN SRet(curStyle, r.c, r.err)
              ELSE SRet([curStyle EXCEPT !.transform = r.m], r.c, "")
      [] OTHER -> SRet(curStyle, c, "")

\* The attributes of an element that reach a case of readStyleAttr, in the
\* order documents of the model write them, each with its value.
StyleAttrs(attrs) ==
    (IF attrs.fill = NoAttr THEN <<>> ELSE << <<"fill", attrs.fill>> >>)
    \o (IF attrs.stroke = NoAttr THEN <<>> ELSE << <<"stroke", attrs.stroke>> >>)
    \o (IF attrs.dash.given THEN << <<"stroke-dasharray", attrs.dash>> >> ELSE <<>>)
    \o (IF attrs.transform = <<>> THEN <<>>
        ELSE << <<"transform", attrs.transform>> >>)
    \o (IF attrs.rule = NoAttr THEN <<>> ELSE << <<"fill-rule", attrs.rule>> >>)

\* The loop of pushStyle over pairs[i..], on its copy curStyle of the top.
RECURSIVE stylePairs(_, _, _, _)
stylePairs(c, curStyle, pairs, i) ==
    IF i > Len(pairs) THEN SRet(curStyle, c, "")
    ELSE LET r == readStyleAttr(c, curStyle, pairs[i][1], pairs[i][2])
         IN IF r.err # "" THEN r ELSE stylePairs(r.c, r.st, pairs, i + 1)

\* The end of pushStyle: the style is pushed unless an attribute failed.
pushTop(r) ==
    IF r.err # "" THEN Ret(r.c, r.err)
    ELSE Ret([r.c EXCEPT !.styleStack = Append(@, r.st)], "")

\* A pushStyle that starts every frame from DefaultStyle, not from the top.
pushStyleFromDefault(c, attrs) ==
    IF Len(c.styleStack) = 0 THEN Ret(c, "panic")
    ELSE pushTop(stylePairs(c, DefaultStyle, StyleAttrs(attrs), 1))

pushStyle(c, attrs) ==
    IF Len(c.styleStack) = 0 THEN Ret(c, "panic")
    ELSE pushTop(stylePairs(c, c.styleStack[Len(c.styleStack)], StyleAttrs(attrs), 1))

popStyle(c) ==
    IF Len(c.styleStack) = 0 THEN Ret(c, "panic")
    ELSE Ret([c EXCEPT !.styleStack = SubSeq(@, 1, Len(@) - 1)], "")

\* ---------------------------------------------------------- draw functions

\* An error handler that lets every element through, whatever the mode.
handleErrorLenient(errorMode) == ""

handleError(errorMode) == IF errorMode = "Strict" THEN "unknown element" ELSE ""

\* A rectF that also draws a rectangle without width or height.
rectFDrawsEmpty(c, attrs) ==
    Ret([c EXCEPT !.path = @ \o AddRect(attrs.x + c.curX, attrs.y + c.curY,
                                        attrs.w + attrs.x + c.curX,
                                        attrs.h + attrs.y + c.curY)], "")

rectF(c, attrs) ==
    IF attrs.w = 0 \/ attrs.h = 0 THEN Ret(c, "")
    ELSE Ret([c EXCEPT !.path = @ \o AddRect(attrs.x + c.curX, attrs.y + c.curY,
                                             attrs.w + attrs.x + c.curX,
                                             attrs.h + attrs.y + c.curY)], "")

defsF(c, attrs) == Ret([c EXCEPT !.inDefs = TRUE], "")

gF(c, attrs) == Ret(c, "")

\* The loop of svgF over the attributes attrs.order[i..]; st holds the
\* locals width and height.
RECURSIVE svgAttrs(_, _, _, _)
svgAttrs(c, attrs, i, st) ==
    IF i > Len(attrs.order) THEN [c |-> c, st |-> st, err |-> ""]
    ELSE
      LET k == attrs.order[i]
      IN CASE k = "viewBox" ->
                LET c1 == getPoints(c, attrs.viewBox.nums)
                IN IF Len(c1.points) # 4
                   THEN [c |-> c1, st |-> st, err |-> "errParamMismatch"]
                   ELSE svgAttrs([c1 EXCEPT !.icon.ViewBox =
                                     [X |-> c1.points[1], Y |-> c1.points[2],
                                      W |-> c1.points[3], H |-> c1.points[4]]],
                                 attrs, i + 1, st)
           [] k = "width" -> svgAttrs(c, attrs, i + 1, [st EXCEPT !.width = attrs.w])
           [] k = "height" -> svgAttrs(c, attrs, i + 1, [st EXCEPT !.height = attrs.h])
           [] OTHER -> svgAttrs(c, attrs, i + 1, st)

\* An svgF that leaves a zero width or height of the viewBox as it is.
svgFNoFallback(c, attrs) ==
    LET c0 == [c EXCEPT !.icon.ViewBox = NoBounds]
        r  == svgAttrs(c0, attrs, 1, [width |-> 0, height |-> 0])
    IN Ret(r.c, r.err)

svgF(c, attrs) ==
    LET c0 == [c EXCEPT !.icon.ViewBox = NoBounds]
        r  == svgAttrs(c0, attrs, 1, [width |-> 0, height |-> 0])
        vb == r.c.icon.ViewBox
        W  == IF vb.W = 0 THEN r.st.width ELSE vb.W
        H  == IF vb.H = 0 THEN r.st.height ELSE vb.H
    IN IF r.err # "" THEN Ret(r.c, r.err)
       ELSE Ret([r.c EXCEPT !.icon.ViewBox = [vb EXCEPT !.W = W, !.H = H]], "")

\* c.ellipseAt(cx, cy, rx, ry): Move, four Cubics and Close around the
\* centre, starting at (cx + rx, cy).  The control points of each quarter
\* stand at the corner of its bounding box.
ellipseAt(c, cx, cy, rx, ry) ==
    LET P(x, y) == <<fToFixed(x), fToFixed(y)>>
    IN [c EXCEPT !.path = @ \o
          << MoveTo(fToFixed(cx + rx), fToFixed(cy)),
             CubicTo(P(cx + rx, cy + ry), P(cx + rx, cy + ry), P(cx, cy + ry)),
             CubicTo(P(cx - rx, cy + ry), P(cx - rx, cy + ry), P(cx - rx, cy)),
             CubicTo(P(cx - rx, cy - ry), P(cx - rx, cy - ry), P(cx, cy - ry)),
             CubicTo(P(cx + rx, cy - ry), P(cx + rx, cy - ry), P(cx + rx, cy)),
             Close >>]

circleF(c, attrs) ==
    LET rx == attrs.r
        ry == attrs.r
    IN IF rx = 0 \/ ry = 0 THEN Ret(c, "")
       ELSE Ret(ellipseAt(c, attrs.x + c.curX, attrs.y + c.curY, rx, ry), "")

lineF(c, attrs) ==
    Ret([c EXCEPT !.path = @ \o
           << MoveTo(fToFixed(attrs.x + c.curX), fToFixed(attrs.y + c.curY)),
              LineTo(fToFixed(attrs.x2 + c.curX), fToFixed(attrs.y2 + c.curY)) >>],
        "")

\* for i := 2; i < len(c.points)-1; i += 2 { c.path.Line(...) }, the
\* buffer indexed from 1 here: the pairs 2, 3, ...
polyLines(c) ==
    [k \in 1..((Len(c.points) - 2) \div 2) |->
        LineTo(fToFixed(c.points[2 * k + 1] + c.curX),
               fToFixed(c.points[2 * k + 2] + c.curY))]

polylineF(c, attrs) ==
    LET c1 == IF attrs.points.given THEN getPoints(c, attrs.points.nums) ELSE c
    IN IF attrs.points.given /\ Len(c1.points) % 2 # 0
       THEN Ret(c1, "polygon has odd number of points")
       ELSE IF Len(c1.points) > 4
       THEN Ret([c1 EXCEPT !.path = @ \o
                   << MoveTo(fToFixed(c1.points[1] + c1.curX),
                             fToFixed(c1.points[2] + c1.curY)) >>
                   \o polyLines(c1)], "")
       ELSE Ret(c1, "")

polygonF(c, attrs) ==
    LET r == polylineF(c, attrs)
    IN IF Len(r.c.points) > 4
       THEN Ret([r.c EXCEPT !.path = Append(@, Close)], r.err)
       ELSE r

\* The id handling of linearGradientF and radialGradientF: the gradient is
\* registered under the value of the id attribute when len(id) >= 0.
gradientF(c, attrs) ==
    LET c1 == [c EXCEPT !.inGrad = TRUE]
    IN IF attrs.id # <<>> \/ attrs.emptyId
       THEN IF Len(attrs.id) >= 0
            THEN Ret([c1 EXCEPT !.icon.grads = @ \cup {attrs.id}], "")
            ELSE Ret(c1, "errZeroLengthID")
       ELSE Ret(c1, "")

linearGradientF(c, attrs) == gradientF(c, attrs)

radialGradientF(c, attrs) == gradientF(c, attrs)

HasHashPrefix(href) == Len(href) > 0 /\ href[1] = "#"

\* The checks of useF on href without the lookup of the id in the defs table.
hrefErrorNoLookup(href, defs) ==
    IF href = <<>> THEN "only use tags with href is supported"
    ELSE IF ~HasHashPrefix(href) THEN "only the ID CSS selector is supported"
    ELSE ""

\* The three checks of useF on href, "" when the definitions are found.
hrefError(href, defs) ==
    IF href = <<>> THEN "only use tags with href is supported"
    ELSE IF ~HasHashPrefix(href) THEN "only the ID CSS selector is supported"
    ELSE IF Tail(href) \notin DOMAIN defs THEN "href ID was not found in saved defs"
    ELSE ""

\* defs := c.icon.defs[href[1:]], nil for a key the map does not hold.
lookupDefs(defs, key) == IF key \in DOMAIN defs THEN defs[key] ELSE <<>>

\* What the replay loop of useF observed at one definition: the offset the
\* enclosing <use> asked for, the cursor offset in effect and the depth of
\* the style stack.
Seen(def, X, Y, c, lvl) ==
    [tag |-> def.Tag, X |-> X, Y |-> Y, curX |-> c.curX, curY |-> c.curY,
     lvl |-> lvl, depth |-> Len(c.styleStack)]

\* One call of useF: its href, its nesting level, and how many definitions
\* the handler had replayed when it was called.
Called(c, attrs, lvl) == [href |-> attrs.href, lvl |-> lvl, at |-> Len(c.trace)]

RECURSIVE useF(_, _, _, _, _)
RECURSIVE replayDefs(_, _, _, _, _, _, _, _)
RECURSIVE replayNext(_, _, _, _, _, _, _, _)
RECURSIVE replayPushed(_, _, _, _, _, _, _, _, _)
RECURSIVE replayDrawn(_, _, _, _, _, _, _, _, _)

\* The dispatch df(c, def.Attrs) of a known element name.  The documents of
\* the model use the draw functions listed; the others leave the cursor as
\* it is when they get no attribute they read.
dispatch(tag, c, icon, errorMode, attrs, lvl) ==
    CASE tag = "rect" -> rectF(c, attrs)
      [] tag = "defs" -> defsF(c, attrs)
      [] tag = "g" -> gF(c, attrs)
      [] tag = "svg" -> svgF(c, attrs)
      [] tag \in {"circle", "ellipse"} -> circleF(c, attrs)
      [] tag = "line" -> lineF(c, attrs)
      [] tag = "polyline" -> polylineF(c, attrs)
      [] tag = "polygon" -> polygonF(c, attrs)
      [] tag = "linearGradient" -> linearGradientF(c, attrs)
      [] tag = "radialGradient" -> radialGradientF(c, attrs)
      [] tag = "use" -> useF(c, icon, errorMode, attrs, lvl)
      [] OTHER -> Ret(c, "")

\* The loop of useF over the definitions defs[i..].
replayDefs(c, icon, errorMode, defs, i, X, Y, lvl) ==
    IF i > Len(defs) THEN Ret(c, "")
    ELSE
      LET def == defs[i]
          c0 == [c EXCEPT !.trace = Append(@, Seen(def, X, Y, c, lvl))]
      IN IF def.Tag = "endg"
         THEN replayNext(popStyle(c0), icon, errorMode, defs, i + 1, X, Y, lvl)
         ELSE replayPushed(pushStyle(c0, def.Attrs), def, icon, errorMode, defs,
                           i, X, Y, lvl)

\* The loop after a popStyle that returned p: on to defs[i..] unless it failed.
replayNext(p, icon, errorMode, defs, i, X, Y, lvl) ==
    IF p.err # "" THEN p
    ELSE replayDefs(p.c, icon, errorMode, defs, i, X, Y, lvl)

\* The iteration on def == defs[i] after its pushStyle returned ps.
replayPushed(ps, def, icon, errorMode, defs, i, X, Y, lvl) ==
    IF ps.err # "" THEN ps
    ELSE IF def.Tag \notin drawFuncs
    THEN Ret(ps.c, handleError(errorMode))
    ELSE replayDrawn(dispatch(def.Tag, ps.c, icon, errorMode, def.Attrs, lvl),
                     def, icon, errorMode, defs, i, X, Y, lvl)

\* The iteration on def == defs[i] after its draw function returned r.
replayDrawn(r, def, icon, errorMode, defs, i, X, Y, lvl) ==
    IF r.err # "" THEN r
    ELSE IF def.Tag # "g"
    THEN replayNext(popStyle(r.c), icon, errorMode, defs, i + 1, X, Y, lvl)
    ELSE replayDefs(r.c, icon, errorMode, defs, i + 1, X, Y, lvl)

\* useF returns r from a call at level lvl that found the offset (X, Y):
\* the cursor notes the offset it returns with, and whether the return is
\* the one of the loop over the attributes.
returned(r, lvl, X, Y, early) ==
    IF r.err = "panic" THEN r
    ELSE Ret([r.c EXCEPT !.rets = Append(@, [lvl |-> lvl, err |-> r.err,
                                            curX |-> r.c.curX, curY |-> r.c.curY,
                                            X |-> X, Y |-> Y, early |-> early])],
             r.err)

\* A useF whose offset stays as it is when the function returns.
useFNoReset(c, icon, errorMode, attrs, lvl) ==
    LET c0 == [c EXCEPT !.uses = Append(@, Called(c, attrs, lvl + 1))]
        c1 == [c0 EXCEPT !.curX = attrs.x, !.curY = attrs.y]
        herr == hrefError(attrs.href, icon.defs)
    IN IF attrs.badX THEN returned(Ret(c0, "errParse"), lvl + 1, c.curX, c.curY, TRUE)
       ELSE IF herr # "" THEN returned(Ret(c1, herr), lvl + 1, c.curX, c.curY, FALSE)
       ELSE returned(replayDefs(c1, icon, errorMode,
                                lookupDefs(icon.defs, Tail(attrs.href)),
                                1, attrs.x, attrs.y, lvl + 1),
                     lvl + 1, c.curX, c.curY, FALSE)

\* useF.  An x that does not parse returns from the loop over the
\* attributes, before the offset is set and the reset is deferred; after
\* that the deferred function resets the offset however useF returns, a
\* panic excepted (it unwinds through ReadIconStream).
useF(c, icon, errorMode, attrs, lvl) ==
    LET c0 == [c EXCEPT !.uses = Append(@, Called(c, attrs, lvl + 1))]
        c1 == [c0 EXCEPT !.curX = attrs.x, !.curY = attrs.y]
        deferred(r) == Ret([r.c EXCEPT !.curX = 0, !.curY = 0], r.err)
        herr == hrefError(attrs.href, icon.defs)
    IN IF attrs.badX THEN returned(Ret(c0, "errParse"), lvl + 1, c.curX, c.curY, TRUE)
       ELSE IF herr # "" THEN returned(deferred(Ret(c1, herr)), lvl + 1, c.curX, c.curY, FALSE)
       ELSE returned(deferred(replayDefs(c1, icon, errorMode,
                                         lookupDefs(icon.defs, Tail(attrs.href)),
                                         1, attrs.x, attrs.y, lvl + 1)),
                     lvl + 1, c.curX, c.curY, FALSE)

\* ------------------------------------------------------------ the document

definition(id, tag, attrs) == [ID |-> id, Tag |-> tag, Attrs |-> attrs]

NoAttrs == El("", <<>>, <<>>, 0, 0, NoAttr, NoAttr)

\* icon.defs[id] = block
saveDefs(defs, block) ==
    [k \in DOMAIN defs \cup {block[1].ID} |->
        IF k = block[1].ID THEN block ELSE defs[k]]

IRet(c, icon, err) == [c |-> c, icon |-> icon, err |-> err]

\* The end of readStartElement, after the draw function returned r: a path
\* it left is appended to the icon with the style on top of the stack,
\* whatever the error.
appendPath(r, icon) ==
    IF r.err = "panic" THEN IRet(r.c, icon, r.err)
    ELSE IF Len(r.c.path) > 0 /\ Len(r.c.styleStack) = 0
    THEN IRet(r.c, icon, "panic")
    ELSE IF Len(r.c.path) > 0
    THEN IRet([r.c EXCEPT !.path = <<>>],
              [icon EXCEPT !.SVGPaths =
                  Append(@, [Path |-> r.c.path,
                             Style |-> r.c.styleStack[Len(r.c.styleStack)]])],
              r.err)
    ELSE IRet(r.c, icon, r.err)

readStartElement(c, icon, errorMode, se) ==
    IF c.inDefs /\ ~(se.tag \in {"radialGradient", "linearGradient"} \/ c.inGrad)
    THEN LET flush == se.id # <<>> /\ Len(c.currentDef) > 0
             icon1 == IF flush
                      THEN [icon EXCEPT !.defs = saveDefs(@, c.currentDef)]
                      ELSE icon
             cd == IF flush THEN <<>> ELSE c.currentDef
         IN IRet([c EXCEPT !.currentDef = Append(cd, definition(se.id, se.tag, se))],
                 icon1, "")
    ELSE IF se.tag \notin drawFuncs
    THEN IRet(c, icon, handleError(errorMode))
    ELSE appendPath(dispatch(se.tag, c, icon, errorMode, se, 0), icon)

\* ------------------------------------------------------ replay onto a driver

\* The matrix applied to a fixed point: (x, y) -> (A x + C y + E, B x + D y + F).
TFixed(M, pt) ==
    << M.A * pt[1] + M.C * pt[2] + fToFixed(M.E),
       M.B * pt[1] + M.D * pt[2] + fToFixed(M.F) >>

\* trMove, trLine, trQuad, trCubic: the points of an operation, transformed.
trPoints(M, op) == [i \in DOMAIN op.pts |-> TFixed(M, op.pts[i])]

\* A call received by a drawer: the function and its arguments.
Call(f, args) == [f |-> f, args |-> args]

\* A drawTo whose MoveTo starts the subpath without stopping the one before.
drawToStartOnly(op, M) ==
    CASE op.op = "M" -> <<Call("Start", trPoints(M, op))>>
      [] op.op = "L" -> <<Call("Line", trPoints(M, op))>>
      [] op.op = "Q" -> <<Call("QuadBezier", trPoints(M, op))>>
      [] op.op = "C" -> <<Call("CubeBezier", trPoints(M, op))>>
      [] op.op = "Z" -> <<Call("Stop", <<TRUE>>)>>

\* Operation.drawTo(d, M): the calls one operation makes on a Drawer.
drawTo(op, M) ==
    CASE op.op = "M" -> <<Call("Stop", <<FALSE>>), Call("Start", trPoints(M, op))>>
      [] op.op = "L" -> <<Call("Line", trPoints(M, op))>>
      [] op.op = "Q" -> <<Call("QuadBezier", trPoints(M, op))>>
      [] op.op = "C" -> <<Call("CubeBezier", trPoints(M, op))>>
      [] op.op = "Z" -> <<Call("Stop", <<TRUE>>)>>

\* for _, op := range svgp.Path { op.drawTo(d, M) }
RECURSIVE drawOps(_, _, _)
drawOps(path, i, M) ==
    IF i > Len(path) THEN <<>> ELSE drawTo(path[i], M) \o drawOps(path, i + 1, M)

\* Driver.SetupDrawers of the raster backend: which drawers are not nil.
SetupDrawers(willFill, willStroke) == [filler |-> willFill, stroker |-> willStroke]

\* The fill pass of drawTransformed, M being the path's transform after the
\* world transform was multiplied in.
fillPass(svgp, M) ==
    <<Call("Clear", <<>>), Call("SetWinding", <<svgp.Style.UseNonZeroWinding>>)>>
      \o drawOps(svgp.Path, 1, M)
      \o <<Call("Stop", <<FALSE>>),
           Call("SetColor", <<svgp.Style.FillerColor>>),
           Call("Draw", <<>>),
           Call("SetWinding", <<TRUE>>)>>

\* A stroke pass that draws with the path's own transform, the world
\* transform left out.
strokePassUntransformed(svgp, M) ==
    <<Call("Clear", <<>>), Call("SetStrokeOptions", <<>>)>>
      \o drawOps(svgp.Path, 1, svgp.Style.transform)
      \o <<Call("Stop", <<FALSE>>),
           Call("SetColor", <<svgp.Style.LinerColor>>),
           Call("Draw", <<>>)>>

\* The stroke pass of drawTransformed.
strokePass(svgp, M) ==
    <<Call("Clear", <<>>), Call("SetStrokeOptions", <<>>)>>
      \o drawOps(svgp.Path, 1, M)
      \o <<Call("Stop", <<FALSE>>),
           Call("SetColor", <<svgp.Style.LinerColor>>),
           Call("Draw", <<>>)>>

\* A call as logged: the index of the path drawn and the pass it belongs to
\* (the fill pass is sent to the Filler, the stroke pass to the Stroker).
Logged(p, pass, cs) ==
    [i \in DOMAIN cs |-> [p |-> p, pass |-> pass, f |-> cs[i].f, args |-> cs[i].args]]

\* SvgPath.drawTransformed(d, opacity, t) on path number p.
drawTransformed(svgp, p, t) ==
    LET M == Mult(t, svgp.Style.transform)
        d == SetupDrawers(svgp.Style.FillerColor # "nil", svgp.Style.LinerColor # "nil")
    IN (IF d.filler THEN Logged(p, "fill", fillPass(svgp, M)) ELSE <<>>)
         \o (IF d.stroker THEN Logged(p, "stroke", strokePass(svgp, M)) ELSE <<>>)

\* The drawFill/drawLine variant, written against a single Driver.  Its
\* filler keeps the first and the current point of the subpath.
fillerLine(f, b) == [calls |-> f.calls \o <<Call("Line", <<b>>)>>, first |-> f.first, a |-> b]

fillerStop(f) == IF f.first # f.a THEN fillerLine(f, f.first) ELSE f

opFill(op, f, M) ==
    LET pts == trPoints(M, op)
    IN CASE op.op = "M" ->
              LET g == fillerStop(f)
              IN [calls |-> g.calls \o <<Call("Start", pts)>>,
                  first |-> pts[1], a |-> pts[1]]
         [] op.op = "L" -> fillerLine(f, pts[1])
         [] op.op = "Q" ->
              [calls |-> f.calls \o <<Call("QuadBezier", pts)>>,
               first |-> f.first, a |-> pts[2]]
         [] op.op = "C" ->
              [calls |-> f.calls \o <<Call("CubeBezier", pts)>>,
               first |-> f.first, a |-> pts[3]]
         [] op.op = "Z" -> fillerStop(f)

RECURSIVE fillOps(_, _, _, _)
fillOps(path, i, f, M) ==
    IF i > Len(path) THEN fillerStop(f).calls
    ELSE fillOps(path, i + 1, opFill(path[i], f, M), M)

NewFiller == [calls |-> <<>>, first |-> <<0, 0>>, a |-> <<0, 0>>]

drawFill(svgp) ==
    IF svgp.Style.FillerColor # "nil" THEN <<>>
    ELSE <<Call("Clear", <<>>), Call("SetWinding", <<svgp.Style.UseNonZeroWinding>>)>>
           \o fillOps(svgp.Path, 1, NewFiller, svgp.Style.transform)
           \o <<Call("SetFillColor", <<svgp.Style.FillerColor>>),
                Call("Draw", <<>>),
                Call("SetWinding", <<TRUE>>)>>

drawLine(svgp) ==
    <<Call("Clear", <<>>), Call("SetStroke", <<>>)>>
      \o fillOps(svgp.Path, 1, NewFiller, svgp.Style.transform)
      \o <<Call("SetColor", <<svgp.Style.LinerColor>>), Call("Draw", <<>>)>>

\* drawTransformed of the drawFill/drawLine variant on path number p.
drawTransformedDriver(svgp, p, t) ==
    LET tr == [svgp EXCEPT !.Style.transform = Mult(t, @)]
    IN Logged(p, "fill", drawFill(tr))
         \o (IF svgp.Style.LinerColor # "nil"
             THEN Logged(p, "stroke", drawLine(tr)) ELSE <<>>)

\* ------------------------------------------------------------------- state

VARIABLES
    errorMode,   \* the ErrorMode argument of ReadIconStream
    cursor,      \* the iconCursor
    icon,        \* the SvgIcon being built
    open,        \* the decoder's stack of open elements
    seenTag,     \* ReadIconStream's seenTag
    nStarts,     \* start elements read so far
    unknownRead, \* a start element outside the dispatch table was read
    result,      \* "running", or how ReadIconStream returned
    retIcon,     \* whether the returned *SvgIcon is nil
    last,        \* what the last token was, and the cursor before it
    drawerPos,   \* Draw with Filler and Stroker: the next path of its loop
    drawerCalls, \* the calls it made so far
    driverPos,   \* Draw of the drawFill/drawLine variant: its next path
    driverCalls, \* the calls it made so far
    target,      \* the arguments of the last SetTarget, if any
    draws,       \* the calls of Draw in progress, one per goroutine
    gradients,   \* svgpath: the gradient table, the stop arrays, a style
    pather       \* svgpdf: a pather

parseVars == <<errorMode, cursor, open, seenTag, nStarts, unknownRead, result,
               retIcon, last>>

libVars == <<gradients, pather>>

drawVars == <<drawerPos, drawerCalls, driverPos, driverCalls, target, draws,
              libVars>>

vars == <<parseVars, icon, drawVars>>

\* The cursor.  Its field icon holds the fields of c.icon that the draw
\* functions write (ViewBox and the ids of grads); SVGPaths, defs and
\* Transform of the same SvgIcon are the variable icon.
NewCursor ==
    [styleStack |-> <<DefaultStyle>>, path |-> <<>>, curX |-> 0, curY |-> 0,
     inDefs |-> FALSE, currentDef |-> <<>>, trace |-> <<>>, uses |-> <<>>,
     points |-> <<>>, inGrad |-> FALSE,
     icon |-> [ViewBox |-> NoBounds, grads |-> {}], err |-> "", rets |-> <<>>]

NewIcon == [SVGPaths |-> <<>>, defs |-> [k \in {} |-> <<>>], Transform |-> Identity]

\* The arguments of a call SetTarget(x, y, w, h).
Target(x, y, w, h) == [set |-> TRUE, x |-> x, y |-> y, w |-> w, h |-> h]

NoTarget == [set |-> FALSE, x |-> 0, y |-> 0, w |-> 0, h |-> 0]

\* The goroutines that call Draw on the icon, each with a driver of its own.
Drawers == {1, 2}

\* No SvgPath: the loop variable svgp outside an iteration.
NoPath == [Path |-> <<>>, Style |-> DefaultStyle]

\* A call of Draw that has not started: its position, the locals i, svgp,
\* t and m of Draw and drawTransformed, the drawers its driver handed out, and
\* the calls its driver has received.  before is the icon as it was when the
\* call started and overlapped tells that the other call was running during
\* one of its steps.
NoDraw ==
    [pc |-> "idle", i |-> 0, svgp |-> NoPath, t |-> Identity, m |-> Identity,
     filler |-> FALSE, stroker |-> FALSE, calls |-> <<>>,
     before |-> NewIcon, overlapped |-> FALSE]

\* No gradient table of svgpath: nothing is read through its cursor.
NoGradients ==
    [heap |-> <<>>, Grads |-> <<>>, fillerColor |-> "", linerColor |-> "",
     results |-> <<>>, stored |-> <<>>, n |-> 0]

\* The zero pather.  passed is the set of the points its methods were given
\* since the last Clear and n counts the calls.
NewPather ==
    [a |-> <<0, 0>>, boundingBox |-> [Min |-> <<0, 0>>, Max |-> <<0, 0>>],
     passed |-> {}, n |-> 0]

NotDrawing ==
    /\ gradients = NoGradients
    /\ pather = NewPather
    /\ drawerPos = 1
    /\ drawerCalls = <<>>
    /\ driverPos = 1
    /\ driverCalls = <<>>
    /\ target = NoTarget
    /\ draws = [d \in Drawers |-> NoDraw]

\* The token read last: its kind and the kind of the one before, and for a
\* start element the element, whether it was recorded, the style stack its
\* handler started from (its own frame pushed) and the paths emitted before.
Token(kind, se, stack) ==
    [kind |-> kind, prev |-> last.kind, se |-> se, inDefs |-> cursor.inDefs,
     stack |-> stack, paths |-> Len(icon.SVGPaths)]

NoToken == [kind |-> "none", prev |-> "none", se |-> NoAttrs, inDefs |-> FALSE,
            stack |-> <<>>, paths |-> 0]

Init ==
    /\ errorMode \in ErrorModes
    /\ cursor = NewCursor
    /\ icon = NewIcon
    /\ open = <<>>
    /\ seenTag = FALSE
    /\ nStarts = 0
    /\ unknownRead = FALSE
    /\ result = "running"
    /\ retIcon = "none"
    /\ last = NoToken
    /\ NotDrawing

Returned(err) ==
    CASE err = "" -> "running"
      [] err = "panic" -> "panic"
      [] OTHER -> "error"

\* The loop of ReadIconStream after the handling of a start element returned
\* r: the cursor and the icon are as the handler left them, and an error
\* ends the loop with the icon returned.  The field err of the cursor keeps
\* the error returned.
Handled(r) ==
    /\ cursor' = [r.c EXCEPT !.err = r.err]
    /\ icon' = r.icon
    /\ result' = Returned(r.err)
    /\ retIcon' = IF r.err = "" THEN retIcon ELSE "icon"

\* case xml.StartElement: pushStyle, then readStartElement
StartElement(se) ==
    /\ result = "running"
    /\ nStarts < MaxStarts
    /\ Len(open) < MaxDepth
    /\ (Len(open) > 0 => open[Len(open)].tag \notin Leaves)
    /\ LET c0 == [cursor EXCEPT !.trace = <<>>, !.uses = <<>>, !.rets = <<>>]
           ps == pushStyle(c0, se)
       IN /\ Handled(IF ps.err # "" THEN IRet(ps.c, icon, ps.err)
                     ELSE readStartElement(ps.c, icon, errorMode, se))
          /\ last' = Token("start", se, ps.c.styleStack)
    /\ open' = Append(open, se)
    /\ seenTag' = TRUE
    /\ nStarts' = nStarts + 1
    /\ unknownRead' = (unknownRead \/ se.tag \notin drawFuncs)
    /\ UNCHANGED <<errorMode, drawVars>>

\* case xml.EndElement: pop the style, then the switch on the element name
EndElement ==
    /\ result = "running"
    /\ Len(open) > 0
    /\ LET name == open[Len(open)].tag
           p == popStyle(cursor)
           c1 == p.c
           c2 == CASE name = "g" /\ c1.inDefs ->
                        [c1 EXCEPT !.currentDef =
                            Append(@, definition(<<>>, "endg", NoAttrs))]
                   [] name = "defs" ->
                        [c1 EXCEPT !.currentDef = <<>>, !.inDefs = FALSE]
                   [] name \in {"radialGradient", "linearGradient"} ->
                        [c1 EXCEPT !.inGrad = FALSE]
                   [] OTHER -> c1
           icon2 == IF name = "defs" /\ Len(c1.currentDef) > 0
                    THEN [icon EXCEPT !.defs = saveDefs(@, c1.currentDef)]
                    ELSE icon
       IN IF p.err # ""
          THEN /\ cursor' = cursor
               /\ icon' = icon
               /\ result' = "panic"
               /\ retIcon' = "none"
          ELSE /\ cursor' = c2
               /\ icon' = icon2
               /\ UNCHANGED <<result, retIcon>>
    /\ last' = Token("end", NoAttrs, cursor.styleStack)
    /\ open' = SubSeq(open, 1, Len(open) - 1)
    /\ UNCHANGED <<errorMode, seenTag, nStarts, unknownRead, drawVars>>

\* case xml.CharData, outside <title> and <desc>: nothing is done with it.
\* Documents of the model have text before their first element only.
CharData ==
    /\ result = "running"
    /\ ~seenTag
    /\ last.kind # "text"
    /\ last' = Token("text", NoAttrs, cursor.styleStack)
    /\ UNCHANGED <<errorMode, cursor, icon, open, seenTag, nStarts, unknownRead,
                   result, retIcon, drawVars>>

\* An end of stream that does not ask whether a start element was seen.
EndOfStreamUnchecked ==
    /\ result = "running"
    /\ open = <<>>
    /\ result' = "ok" /\ retIcon' = "icon"
    /\ last' = Token("eof", NoAttrs, cursor.styleStack)
    /\ UNCHANGED <<errorMode, cursor, icon, open, seenTag, nStarts, unknownRead,
                   drawVars>>

\* decoder.Token() returns io.EOF, which it does once every element is closed
EndOfStream ==
    /\ result = "running"
    /\ open = <<>>
    /\ IF ~seenTag
       THEN result' = "error" /\ retIcon' = "nil"
       ELSE result' = "ok" /\ retIcon' = "icon"
    /\ last' = Token("eof", NoAttrs, cursor.styleStack)
    /\ UNCHANGED <<errorMode, cursor, icon, open, seenTag, nStarts, unknownRead,
                   drawVars>>

\* A token error that hands back no icon with the error.
TokenErrorNilIcon ==
    /\ result = "running"
    /\ result' = "error"
    /\ retIcon' = "nil"
    /\ last' = Token("xmlerror", NoAttrs, cursor.styleStack)
    /\ UNCHANGED <<errorMode, cursor, icon, open, seenTag, nStarts, unknownRead,
                   drawVars>>

\* decoder.Token() returns another error (malformed XML, or the stream ends
\* inside an element)
TokenError ==
    /\ result = "running"
    /\ result' = "error"
    /\ retIcon' = "icon"
    /\ last' = Token("xmlerror", NoAttrs, cursor.styleStack)
    /\ UNCHANGED <<errorMode, cursor, icon, open, seenTag, nStarts, unknownRead,
                   drawVars>>

\* The documents of Spec: definitions inside <defs>, which comes first if
\* at all, and elements that use them.
Readable(se) ==
    /\ nStarts < MaxUseStarts
    /\ Len(open) < MaxUseDepth
    /\ IF cursor.inDefs THEN se \in DefElems ELSE se \in TopElems
    /\ (se.tag = "defs" => nStarts = 0)

Next ==
    \/ \E se \in Elems : Readable(se) /\ StartElement(se)
    \/ EndElement
    \/ CharData
    \/ EndOfStream
    \/ TokenError

Spec == Init /\ [][Next]_vars

\* The documents of SpecShapes: an <svg> root or none, then shapes, groups
\* and gradients.
ReadableShape(se) ==
    /\ nStarts < MaxShapeStarts
    /\ (se \in SvgElems => nStarts = 0)

NextShapes ==
    \/ \E se \in SvgElems \cup ShapeElems : ReadableShape(se) /\ StartElement(se)
    \/ EndElement
    \/ CharData
    \/ EndOfStream
    \/ TokenError

SpecShapes == Init /\ [][NextShapes]_vars

\* The documents of SpecStyle: a root or none, then styled elements.
ReadableStyle(se) ==
    /\ nStarts < MaxStyleStarts
    /\ (se.tag = "svg" => nStarts = 0)

NextStyle ==
    \/ \E se \in StyleElems : ReadableStyle(se) /\ StartElement(se)
    \/ EndElement
    \/ CharData
    \/ EndOfStream
    \/ TokenError

SpecStyle == Init /\ [][NextStyle]_vars

\* The elements of the documents of SpecRooted: the root, the elements
\* recorded inside <defs>, and those dispatched.
RootElem == Plain("svg")

RootedDefElems ==
    { Plain("g"),
      El("rect", IdB, <<>>, 0, 0, "red", NoAttr),
      El("use", IdA, <<"#", "b">>, 1, 1, NoAttr, NoAttr),
      [El("use", IdA, <<"#", "b">>, 1, 1, NoAttr, NoAttr) EXCEPT !.badX = TRUE],
      Plain("foo") }

RootedTopElems ==
    { Plain("defs"),
      Plain("rect"),
      El("use", <<>>, <<"#", "a">>, 5, 3, NoAttr, NoAttr),
      El("use", <<>>, <<"#", "b">>, 5, 3, NoAttr, NoAttr),
      El("use", <<>>, <<>>, 5, 3, NoAttr, NoAttr),
      El("use", <<>>, <<"b">>, 5, 3, NoAttr, NoAttr) }

\* The documents of SpecRooted are well formed: one root element that holds
\* every other element, <defs> if any as its first child.
ReadableRooted(se) ==
    IF nStarts = 0 THEN se = RootElem
    ELSE /\ Len(open) > 0
         /\ IF cursor.inDefs THEN se \in RootedDefElems ELSE se \in RootedTopElems
         /\ (se.tag = "defs" => nStarts = 1)

NextRooted ==
    \/ \E se \in {RootElem} \cup RootedDefElems \cup RootedTopElems :
          ReadableRooted(se) /\ StartElement(se)
    \/ EndElement
    \/ CharData
    \/ EndOfStream
    \/ TokenError

SpecRooted == Init /\ [][NextRooted]_vars

\* ------------------------------------------------------------ drawing an icon

\* Paths as the shape reducers and the path compiler leave them: a closed
\* rectangle, an open line, and two subpaths with curves, the second closed.
\* Each comes with the transform of the element it was compiled from.
PathMenu ==
    { [Path |-> AddRect(0, 0, 1, 1), transform |-> Identity],
      [Path |-> <<MoveTo(0, 0), LineTo(64, 128)>>,
       transform |-> Translate(Identity, 1, 2)],
      [Path |-> <<MoveTo(0, 0), QuadTo(<<64, 0>>, <<64, 64>>),
                  MoveTo(128, 0), CubicTo(<<192, 0>>, <<192, 64>>, <<128, 64>>),
                  Close>>,
       transform |-> Scale(Translate(Identity, 0, 1), 1, 3)] }

StyleMenu ==
    { [DefaultStyle EXCEPT !.FillerColor = fc, !.LinerColor = lc] :
        fc \in {"nil", "red"}, lc \in {"nil", "blue"} }

SvgPathMenu ==
    { [Path |-> p.Path, Style |-> [st EXCEPT !.transform = p.transform]] :
        p \in PathMenu, st \in StyleMenu }

TransformMenu == {Identity, Scale(Translate(Identity, 3, 0), 2, 2)}

\* The ViewBox the parse left: with its origin at (0, 0) and elsewhere.
ViewBoxMenu == {[X |-> 0, Y |-> 0, W |-> 4, H |-> 2], [X |-> 1, Y |-> 2, W |-> 4, H |-> 2]}

\* Target rectangles: of the size of the ViewBox, and twice as large.
TargetMenu == {Target(0, 0, 4, 2), Target(3, 1, 8, 4)}

SeqsUpTo(S, n) == UNION {[1..k -> S] : k \in 1..n}

\* A parsed icon, its world Transform set by SetTarget, about to be drawn.
InitDraw ==
    /\ errorMode \in {"Warn"}
    /\ cursor = NewCursor
    /\ \E ps \in SeqsUpTo(SvgPathMenu, MaxDrawPaths), t \in TransformMenu :
          icon = [NewIcon EXCEPT !.SVGPaths = ps, !.Transform = t]
    /\ open = <<>>
    /\ seenTag = TRUE
    /\ nStarts = 0
    /\ unknownRead = FALSE
    /\ result = "ok"
    /\ retIcon = "icon"
    /\ last = NoToken
    /\ NotDrawing

\* One iteration of the loop of SvgIcon.Draw: drawTransformed on the next path
DrawPath ==
    /\ result = "ok"
    /\ drawerPos <= Len(icon.SVGPaths)
    /\ drawerCalls' = drawerCalls
          \o drawTransformed(icon.SVGPaths[drawerPos], drawerPos, icon.Transform)
    /\ drawerPos' = drawerPos + 1
    /\ UNCHANGED <<parseVars, icon, driverPos, driverCalls, target, draws, libVars>>

\* One iteration of the loop of SvgIcon.Draw in the drawFill/drawLine variant
DrawPathDriver ==
    /\ result = "ok"
    /\ driverPos <= Len(icon.SVGPaths)
    /\ driverCalls' = driverCalls
          \o drawTransformedDriver(icon.SVGPaths[driverPos], driverPos, icon.Transform)
    /\ driverPos' = driverPos + 1
    /\ UNCHANGED <<parseVars, icon, drawerPos, drawerCalls, target, draws, libVars>>

\* The Transform SetTarget computes from the ViewBox vb.  The scales w/vb.W
\* and h/vb.H are quotients of floats; targets are chosen so that they are
\* whole numbers.
targetTransform(vb, x, y, w, h) ==
    Scale(Translate(Identity, x - vb.X, y - vb.Y), w \div vb.W, h \div vb.H)

\* SvgIcon.SetTarget(x, y, w, h), called while no Draw is running
SetTarget ==
    /\ result = "ok"
    /\ \A d \in Drawers : draws[d].pc = "idle"
    /\ \E tg \in TargetMenu :
          LET vb == cursor.icon.ViewBox
          IN /\ vb.W # 0 /\ vb.H # 0
             /\ tg.w % vb.W = 0 /\ tg.h % vb.H = 0
             /\ icon' = [icon EXCEPT !.Transform =
                            targetTransform(vb, tg.x, tg.y, tg.w, tg.h)]
             /\ target' = tg
    /\ UNCHANGED <<parseVars, drawerPos, drawerCalls, driverPos, driverCalls, draws,
                   libVars>>

NextDraw ==
    \/ DrawPath
    \/ DrawPathDriver

SpecDraw == InitDraw /\ [][NextDraw]_vars

\* ------------------------------------------------- concurrent calls of Draw

\* The icons drawn concurrently: a filled rectangle, a stroked line with a
\* transform of its own, and curves with both paints.
ConcPathMenu ==
    { [Path |-> AddRect(0, 0, 1, 1),
       Style |-> [DefaultStyle EXCEPT !.FillerColor = "red"]],
      [Path |-> <<MoveTo(0, 0), LineTo(64, 128)>>,
       Style |-> [DefaultStyle EXCEPT !.LinerColor = "blue",
                                      !.transform = Translate(Identity, 1, 2)]],
      [Path |-> <<MoveTo(0, 0), QuadTo(<<64, 0>>, <<64, 64>>), Close>>,
       Style |-> [DefaultStyle EXCEPT !.FillerColor = "red", !.LinerColor = "blue",
                                      !.transform = Scale(Identity, 1, 3)]] }

\* A parsed icon with its ViewBox, before SetTarget and Draw.
InitConcurrent ==
    /\ errorMode \in {"Warn"}
    /\ \E vb \in ViewBoxMenu : cursor = [NewCursor EXCEPT !.icon.ViewBox = vb]
    /\ \E ps \in SeqsUpTo(ConcPathMenu, MaxConcPaths) :
          icon = [NewIcon EXCEPT !.SVGPaths = ps]
    /\ open = <<>>
    /\ seenTag = TRUE
    /\ nStarts = 0
    /\ unknownRead = FALSE
    /\ result = "ok"
    /\ retIcon = "icon"
    /\ last = NoToken
    /\ NotDrawing

\* An assignment to svgp.Style.transform that goes to element i of the
\* icon's SVGPaths as well, as it would if svgp pointed into the slice.
setTransformShared(ic, svgp, i, M) ==
    [icon |-> [ic EXCEPT !.SVGPaths[i].Style.transform = M],
     svgp |-> [svgp EXCEPT !.Style.transform = M]]

\* An assignment to svgp.Style.transform in drawTransformed.  Its receiver
\* points to the loop variable of Draw, a copy of element i of SVGPaths.
setTransform(ic, svgp, i, M) ==
    [icon |-> ic, svgp |-> [svgp EXCEPT !.Style.transform = M]]

Running(d) == draws[d].pc \notin {"idle", "done"}

\* The record of drawer d after a step that leaves it as r.
Stepped(d, r) ==
    [r EXCEPT !.overlapped = @ \/ \E o \in Drawers \ {d} : Running(o)]

DrawUnchanged ==
    UNCHANGED <<parseVars, drawerPos, drawerCalls, driverPos, driverCalls, target,
                libVars>>

\* Draw is called: the range statement is reached
DrawBegin(d) ==
    /\ result = "ok"
    /\ draws[d].pc = "idle"
    /\ draws' = [draws EXCEPT ![d] =
                    Stepped(d, [@ EXCEPT !.pc = "range", !.i = 1, !.before = icon])]
    /\ UNCHANGED icon
    /\ DrawUnchanged

\* for _, svgp := range s.SVGPaths: the next element is copied into svgp and
\* s.Transform is read for the call, or the loop ends and Draw returns
DrawRange(d) ==
    /\ draws[d].pc = "range"
    /\ LET w == draws[d]
       IN draws' = [draws EXCEPT ![d] =
             Stepped(d, IF w.i <= Len(icon.SVGPaths)
                        THEN [w EXCEPT !.pc = "enter", !.svgp = icon.SVGPaths[w.i],
                                       !.t = icon.Transform]
                        ELSE [w EXCEPT !.pc = "done", !.svgp = NoPath])]
    /\ UNCHANGED icon
    /\ DrawUnchanged

\* drawTransformed: m is saved, the transform is composed, the driver sets
\* up its drawers
DrawEnter(d) ==
    /\ draws[d].pc = "enter"
    /\ LET w == draws[d]
           r == setTransform(icon, w.svgp, w.i, Mult(w.t, w.svgp.Style.transform))
           s == SetupDrawers(r.svgp.Style.FillerColor # "nil",
                             r.svgp.Style.LinerColor # "nil")
       IN /\ icon' = r.icon
          /\ draws' = [draws EXCEPT ![d] =
                Stepped(d, [@ EXCEPT !.pc = "fill", !.m = w.svgp.Style.transform,
                                     !.svgp = r.svgp,
                                     !.filler = s.filler, !.stroker = s.stroker])]
    /\ DrawUnchanged

\* drawTransformed: the fill pass, if the driver gave a filler
DrawFill(d) ==
    /\ draws[d].pc = "fill"
    /\ LET w == draws[d]
           cs == IF w.filler
                 THEN Logged(w.i, "fill", fillPass(w.svgp, w.svgp.Style.transform))
                 ELSE <<>>
       IN draws' = [draws EXCEPT ![d] =
                      Stepped(d, [@ EXCEPT !.pc = "stroke", !.calls = @ \o cs])]
    /\ UNCHANGED icon
    /\ DrawUnchanged

\* drawTransformed: the stroke pass, if the driver gave a stroker
DrawStroke(d) ==
    /\ draws[d].pc = "stroke"
    /\ LET w == draws[d]
           cs == IF w.stroker
                 THEN Logged(w.i, "stroke", strokePass(w.svgp, w.svgp.Style.transform))
                 ELSE <<>>
       IN draws' = [draws EXCEPT ![d] =
                      Stepped(d, [@ EXCEPT !.pc = "exit", !.calls = @ \o cs])]
    /\ UNCHANGED icon
    /\ DrawUnchanged

\* drawTransformed returns: the deferred function restores the transform,
\* and the loop goes on to the next element
DrawExit(d) ==
    /\ draws[d].pc = "exit"
    /\ LET w == draws[d]
           r == setTransform(icon, w.svgp, w.i, w.m)
       IN /\ icon' = r.icon
          /\ draws' = [draws EXCEPT ![d] =
                Stepped(d, [@ EXCEPT !.pc = "range", !.i = @ + 1, !.svgp = r.svgp])]
    /\ DrawUnchanged

NextConcurrent ==
    \/ SetTarget
    \/ \E d \in Drawers : DrawBegin(d)
    \/ \E d \in Drawers : DrawRange(d)
    \/ \E d \in Drawers : DrawEnter(d)
    \/ \E d \in Drawers : DrawFill(d)
    \/ \E d \in Drawers : DrawStroke(d)
    \/ \E d \in Drawers : DrawExit(d)

SpecConcurrent == InitConcurrent /\ [][NextConcurrent]_vars

\* ------------------------------------------- svgpath: gradient references
\* A fillerColor or linerColor is nil, a color.NRGBA or a Gradient.  A
\* Gradient holds its Stops as a slice: here the address of an array of the
\* heap, so that two gradients can share one array.  A stop is its
\* StopColor, "nil" when it has none.

NilPaint == [kind |-> "nil", col |-> "nil", Stops |-> 0]

NRGBA(col) == [kind |-> "color", col |-> col, Stops |-> 0]

GradPaint(g) == [kind |-> "grad", col |-> "nil", Stops |-> g.Stops]

\* ParseSVGColor: anything that starts with url is black, none is nil
ParseSVGColor(v) ==
    CASE v[1] = "url(" -> NRGBA("black")
      [] v = <<"none">> -> NilPaint
      [] OTHER -> NRGBA(v[1])

RECURSIVE firstStopColor(_, _)
firstStopColor(stops, i) ==
    IF i > Len(stops) THEN "black"
    ELSE IF stops[i] # "nil" THEN stops[i]
    ELSE firstStopColor(stops, i + 1)

\* getColor: the colour put where a stop has none
getColor(heap, clr) ==
    CASE clr.kind = "grad" -> firstStopColor(heap[clr.Stops], 1)
      [] clr.kind = "color" -> clr.col
      [] OTHER -> "black"

\* The stops with clr where a stop has no colour.
filled(stops, clr) ==
    [i \in DOMAIN stops |-> IF stops[i] = "nil" THEN clr ELSE stops[i]]

\* A localizeGradIfStopClrNil that fills the colours into the array of the
\* gradient it was given.
localizeGradInPlace(heap, g, defaultColor) ==
    IF \E i \in DOMAIN heap[g.Stops] : heap[g.Stops][i] = "nil"
    THEN [heap |-> [heap EXCEPT ![g.Stops] = filled(@, getColor(heap, defaultColor))],
          grad |-> g, clr |-> getColor(heap, defaultColor)]
    ELSE [heap |-> heap, grad |-> g, clr |-> getColor(heap, defaultColor)]

\* localizeGradIfStopClrNil: grad is a copy of *g that shares its array of
\* stops; when a stop has no colour the array is copied, the copy filled
\* and grad.Stops set to the copy.  clr is the colour of defaultColor.
localizeGradIfStopClrNil(heap, g, defaultColor) ==
    IF \E i \in DOMAIN heap[g.Stops] : heap[g.Stops][i] = "nil"
    THEN [heap |-> Append(heap, filled(heap[g.Stops], getColor(heap, defaultColor))),
          grad |-> [g EXCEPT !.Stops = Len(heap) + 1],
          clr |-> getColor(heap, defaultColor)]
    ELSE [heap |-> heap, grad |-> g, clr |-> getColor(heap, defaultColor)]

\* The value v of an attribute is the sequence of its pieces:
\* url(#g) is <<"url(", "#", "g", ")">>.
urlStr(v) == SubSeq(v, 2, Len(v) - 1)

\* IconCursor.ReadGradURL on the table and heap of gs
ReadGradURL(gs, v, defaultColor) ==
    IF /\ v[1] = "url(" /\ v[Len(v)] = ")"
       /\ Len(urlStr(v)) > 0 /\ urlStr(v)[1] = "#"
       /\ Tail(urlStr(v)) \in DOMAIN gs.Grads
    THEN [ok |-> TRUE, id |-> Tail(urlStr(v)),
          loc |-> localizeGradIfStopClrNil(gs.heap, gs.Grads[Tail(urlStr(v))],
                                           defaultColor)]
    ELSE [ok |-> FALSE, id |-> <<>>,
          loc |-> [heap |-> gs.heap, grad |-> [Stops |-> 0], clr |-> "nil"]]

\* gs after a gradient was resolved for attribute k.
resolved(gs, k, r) ==
    [gs EXCEPT !.heap = r.loc.heap,
               !.fillerColor = IF k = "fill" THEN GradPaint(r.loc.grad) ELSE @,
               !.linerColor = IF k = "stroke" THEN GradPaint(r.loc.grad) ELSE @,
               !.results = Append(@, [id |-> r.id, clr |-> r.loc.clr,
                                      grad |-> r.loc.grad])]

\* IconCursor.readStyleAttr of svgpath, cases fill and stroke
svgpathReadStyleAttr(gs, k, v) ==
    CASE k = "fill" ->
           IF ReadGradURL(gs, v, gs.fillerColor).ok
           THEN resolved(gs, k, ReadGradURL(gs, v, gs.fillerColor))
           ELSE [gs EXCEPT !.fillerColor = ParseSVGColor(v)]
      [] k = "stroke" ->
           IF ReadGradURL(gs, v, gs.linerColor).ok
           THEN resolved(gs, k, ReadGradURL(gs, v, gs.linerColor))
           ELSE [gs EXCEPT !.linerColor = ParseSVGColor(v)]

GradIds == {<<"g">>, <<"h">>}

StopMenu == {"nil", "blue"}

GradValues ==
    { <<"url(", "#", "g", ")">>, <<"url(", "#", "h", ")">>,
      <<"url(", "#", "x", ")">>, <<"url(", "g", ")">>,
      <<"red">>, <<"none">> }

\* The table after the gradients g and h were read, g with the stops
\* stops, and the default style: black fill, no stroke.
NewGradients(stops) ==
    LET heap == <<stops, <<"green", "nil">>>>
        Grads == [id \in GradIds |-> [Stops |-> IF id = <<"g">> THEN 1 ELSE 2]]
    IN [heap |-> heap, Grads |-> Grads,
        fillerColor |-> NRGBA("black"), linerColor |-> NilPaint,
        results |-> <<>>, stored |-> [heap |-> heap, Grads |-> Grads], n |-> 0]

InitGrad ==
    /\ errorMode \in {"Warn"}
    /\ cursor = NewCursor
    /\ icon = NewIcon
    /\ open = <<>>
    /\ seenTag = FALSE
    /\ nStarts = 0
    /\ unknownRead = FALSE
    /\ result = "running"
    /\ retIcon = "none"
    /\ last = NoToken
    /\ drawerPos = 1
    /\ drawerCalls = <<>>
    /\ driverPos = 1
    /\ driverCalls = <<>>
    /\ target = NoTarget
    /\ draws = [d \in Drawers |-> NoDraw]
    /\ pather = NewPather
    /\ \E stops \in {<<>>} \cup SeqsUpTo(StopMenu, MaxStops) :
          gradients = NewGradients(stops)

\* readStyleAttr(curStyle, k, v) for a fill or stroke attribute
ReadPaint(k) ==
    /\ gradients.n < MaxResolves
    /\ \E v \in GradValues :
          gradients' = [svgpathReadStyleAttr(gradients, k, v) EXCEPT !.n = @ + 1]
    /\ UNCHANGED <<parseVars, icon, drawerPos, drawerCalls, driverPos,
                   driverCalls, target, draws, pather>>

NextGrad ==
    \/ ReadPaint("fill")
    \/ ReadPaint("stroke")

SpecGrad == InitGrad /\ [][NextGrad]_vars

\* ------------------------------------------------- svgpdf: the bounding box
\* A fixed.Point26_6 is <<X, Y>> in units of 1/64.  The floats of the
\* bounding box computation are taken as exact: a float is the fraction
\* <<n, d>> of two integers, d > 0, in lowest terms and in the same units.

Abs(n) == IF n < 0 THEN -n ELSE n

RECURSIVE GCD(_, _)
GCD(a, b) == IF b = 0 THEN a ELSE GCD(b, a % b)

Frac(n, d) ==
    LET g == GCD(Abs(n), Abs(d))
    IN IF d < 0 THEN <<(-n) \div g, (-d) \div g>> ELSE <<n \div g, d \div g>>

FracLeq(p, q) == p[1] * q[2] <= q[1] * p[2]

FracMin(S) == CHOOSE m \in S : \A o \in S : FracLeq(m, o)

FracMax(S) == CHOOSE m \in S : \A o \in S : FracLeq(o, m)

\* fToFixed (svgpdf) of one coordinate: the conversion to Int26_6 truncates
fracToFixed(f) ==
    IF f[1] >= 0 THEN f[1] \div f[2] ELSE -((-f[1]) \div f[2])

\* math.Sqrt of n, for the n that have a whole root.
IsSquare(n, lim) == \E k \in 0..lim : k * k = n

Sqrt(n, lim) == CHOOSE k \in 0..lim : k * k = n

\* linearRoots of quadraticDerivative, for one coordinate
quadCritical(p0, p1, p2) ==
    LET a == 2 * (p2 - p1 - (p1 - p0))
        b == 2 * (p1 - p0)
    IN IF a = 0 THEN {} ELSE {Frac(-b, a)}

\* The determinant of cubicDerivative has a whole root, or none.
cubicExact(p0, p1, p2, p3) ==
    LET a == 3 * p3 - 9 * p2 + 9 * p1 - 3 * p0
        b == 6 * p2 - 12 * p1 + 6 * p0
        c == 3 * p1 - 3 * p0
    IN b * b - 4 * a * c < 0 \/ IsSquare(b * b - 4 * a * c, Abs(a) + Abs(b) + Abs(c))

\* quadraticRoots of cubicDerivative, for one coordinate.  With a = 0 the
\* root is -c / b, infinite or not a number when b = 0: it fails the test
\* 0 <= t && t <= 1 like every root outside [0, 1].
cubicCritical(p0, p1, p2, p3) ==
    LET a == 3 * p3 - 9 * p2 + 9 * p1 - 3 * p0
        b == 6 * p2 - 12 * p1 + 6 * p0
        c == 3 * p1 - 3 * p0
        d == b * b - 4 * a * c
        r == Sqrt(d, Abs(a) + Abs(b) + Abs(c))
    IN IF d < 0 THEN {}
       ELSE IF a = 0 THEN (IF b = 0 THEN {} ELSE {Frac(-c, b)})
       ELSE IF d = 0 THEN {Frac(-b, 2 * a)}
       ELSE {Frac(-b + r, 2 * a), Frac(-b - r, 2 * a)}

\* criticalPoints of the curve cu, a line, quadBezier or cubicBezier given
\* by its points: the roots of both coordinates
criticalPoints(cu) ==
    CASE Len(cu) = 2 -> {}
      [] Len(cu) = 3 ->
           quadCritical(cu[1][1], cu[2][1], cu[3][1])
              \cup quadCritical(cu[1][2], cu[2][2], cu[3][2])
      [] Len(cu) = 4 ->
           cubicCritical(cu[1][1], cu[2][1], cu[3][1], cu[4][1])
              \cup cubicCritical(cu[1][2], cu[2][2], cu[3][2], cu[4][2])

\* bezierLine, bezierQuad and bezierSpline at t = n/d, for coordinate i
evaluateCurve(cu, t, i) ==
    LET n == t[1]
        d == t[2]
    IN CASE Len(cu) = 2 ->
              Frac((cu[2][i] - cu[1][i]) * n + cu[1][i] * d, d)
         [] Len(cu) = 3 ->
              Frac((cu[1][i] + cu[3][i] - 2 * cu[2][i]) * n * n
                     + 2 * (cu[2][i] - cu[1][i]) * n * d + cu[1][i] * d * d,
                   d * d)
         [] Len(cu) = 4 ->
              Frac((cu[4][i] - 3 * cu[3][i] + 3 * cu[2][i] - cu[1][i]) * n * n * n
                     + (3 * cu[3][i] - 6 * cu[2][i] + 3 * cu[1][i]) * n * n * d
                     + (3 * cu[2][i] - 3 * cu[1][i]) * n * d * d
                     + cu[1][i] * d * d * d,
                   d * d * d)

\* The values of t that computeBoundingBox evaluates the curve at.
validTimes(cu) ==
    {t \in criticalPoints(cu) \cup {<<0, 1>>, <<1, 1>>} : 0 <= t[1] /\ t[1] <= t[2]}

computeBoundingBox(cu) ==
    [Min |-> << fracToFixed(FracMin({evaluateCurve(cu, t, 1) : t \in validTimes(cu)})),
                fracToFixed(FracMin({evaluateCurve(cu, t, 2) : t \in validTimes(cu)})) >>,
     Max |-> << fracToFixed(FracMax({evaluateCurve(cu, t, 1) : t \in validTimes(cu)})),
                fracToFixed(FracMax({evaluateCurve(cu, t, 2) : t \in validTimes(cu)})) >>]

\* Rectangle26_6.Empty of golang.org/x/image/math/fixed
Empty(r) == r.Min[1] >= r.Max[1] \/ r.Min[2] >= r.Max[2]

Min2(a, b) == IF a < b THEN a ELSE b

Max2(a, b) == IF a > b THEN a ELSE b

\* Rectangle26_6.Union of the same package: an empty rectangle adds nothing
Union(r, s) ==
    IF Empty(r) THEN s
    ELSE IF Empty(s) THEN r
    ELSE [Min |-> <<Min2(r.Min[1], s.Min[1]), Min2(r.Min[2], s.Min[2])>>,
          Max |-> <<Max2(r.Max[1], s.Max[1]), Max2(r.Max[2], s.Max[2])>>]

\* The pather p after a call that was given the points pts.
called(p, pts) == [p EXCEPT !.passed = @ \cup pts, !.n = @ + 1]

PdfPoints == {<<0, 0>>, <<8, 0>>, <<4, 8>>, <<8, 8>>}

QuadMenu ==
    { << <<4, 8>>, <<8, 0>> >>, << <<8, 8>>, <<0, 0>> >>, << <<0, 0>>, <<4, 8>> >> }

CubicMenu ==
    { << <<0, 0>>, <<8, 8>>, <<8, 0>> >>, << <<4, 8>>, <<4, 8>>, <<8, 8>> >>,
      << <<8, 0>>, <<0, 0>>, <<0, 0>> >> }

InitPdf ==
    /\ errorMode \in {"Warn"}
    /\ cursor = NewCursor
    /\ icon = NewIcon
    /\ open = <<>>
    /\ seenTag = FALSE
    /\ nStarts = 0
    /\ unknownRead = FALSE
    /\ result = "running"
    /\ retIcon = "none"
    /\ last = NoToken
    /\ NotDrawing

PdfUnchanged ==
    UNCHANGED <<parseVars, icon, drawerPos, drawerCalls, driverPos,
                driverCalls, target, draws, gradients>>

\* pather.Clear
Clear ==
    /\ pather.n < MaxPdfCalls
    /\ pather' = [NewPather EXCEPT !.n = pather.n + 1]
    /\ PdfUnchanged

\* MoveTo.drawTo: Stop(false), which leaves the pather as it is, then
\* pather.Start
Start ==
    /\ pather.n < MaxPdfCalls
    /\ \E a \in PdfPoints :
          pather' = called([pather EXCEPT !.a = a,
                                          !.boundingBox = [Min |-> a, Max |-> a]],
                           {a})
    /\ PdfUnchanged

\* pather.Line
Line ==
    /\ pather.n < MaxPdfCalls
    /\ \E b \in PdfPoints :
          pather' = called([pather EXCEPT
                               !.boundingBox = Union(@, computeBoundingBox(<<pather.a, b>>)),
                               !.a = b],
                           {b})
    /\ PdfUnchanged

\* pather.QuadBezier
QuadBezier ==
    /\ pather.n < MaxPdfCalls
    /\ \E q \in QuadMenu :
          pather' = called([pather EXCEPT
                               !.boundingBox =
                                   Union(@, computeBoundingBox(<<pather.a, q[1], q[2]>>)),
                               !.a = q[2]],
                           {q[1], q[2]})
    /\ PdfUnchanged

\* pather.CubeBezier
CubeBezier ==
    /\ pather.n < MaxPdfCalls
    /\ \E q \in CubicMenu :
          /\ \A i \in 1..2 : cubicExact(pather.a[i], q[1][i], q[2][i], q[3][i])
          /\ pather' = called([pather EXCEPT
                                  !.boundingBox =
                                      Union(@, computeBoundingBox(<<pather.a, q[1], q[2], q[3]>>)),
                                  !.a = q[3]],
                              {q[1], q[2], q[3]})
    /\ PdfUnchanged

NextPdf ==
    \/ Clear
    \/ Start
    \/ Line
    \/ QuadBezier
    \/ CubeBezier

SpecPdf == InitPdf /\ [][NextPdf]_vars

\* --------------------------------------------------- claims about drawing

\* The calls of one pass on path number p, in the order they were made.
PassOf(log, p, pass) == SelectSeq(log, LAMBDA c : c.p = p /\ c.pass = pass)

PathCalls == {"Start", "Line", "QuadBezier", "CubeBezier", "Stop"}

CurveCalls == {"Line", "QuadBezier", "CubeBezier"}

PathCallsOf(seg) == SelectSeq(seg, LAMBDA c : c.f \in PathCalls)

Passes == {"fill", "stroke"}

Drawn == 1..(drawerPos - 1)

\* Clear, the options of the pass, Start, curves, at most one Stop, SetColor
\* and Draw, with nothing after it.
StatedOrder(seg, pass) ==
    LET n == Len(seg)
    IN /\ n >= 5
       /\ seg[1].f = "Clear"
       /\ seg[2].f = (IF pass = "fill" THEN "SetWinding" ELSE "SetStrokeOptions")
       /\ seg[3].f = "Start"
       /\ seg[n - 1].f = "SetColor"
       /\ seg[n].f = "Draw"
       /\ \A i \in 4..(n - 2) :
             \/ seg[i].f \in CurveCalls
             \/ i = n - 2 /\ seg[i].f = "Stop"

\* C1 as stated: each pass sends Clear, SetWinding (fill pass only), Start
\* as its first path call, then only Line, QuadBezier and CubeBezier, then
\* at most one Stop, then SetColor, then Draw; no Stop comes before the first
\* Start and nothing follows Draw within the pass.
C1_PassInStatedOrder ==
    \A p \in Drawn : \A pass \in Passes :
        LET seg == PassOf(drawerCalls, p, pass)
        IN seg # <<>> => StatedOrder(seg, pass)

\* The order drawTransformed and drawTo produce: every MoveTo sends
\* Stop(false) and then Start, every Close sends Stop(true), the loop is
\* followed by one more Stop(false), and the fill pass ends by restoring the
\* winding rule after Draw.
CodeOrder(seg, pass) ==
    LET n    == Len(seg)
        tail == IF pass = "fill" THEN 1 ELSE 0
        m    == n - tail
    IN /\ m >= 7
       /\ seg[1].f = "Clear"
       /\ seg[2].f = (IF pass = "fill" THEN "SetWinding" ELSE "SetStrokeOptions")
       /\ seg[3].f = "Stop" /\ seg[3].args = <<FALSE>>
       /\ seg[4].f = "Start"
       /\ \A i \in 3..(m - 2) :
             /\ seg[i].f \in PathCalls
             /\ seg[i].f = "Start" =>
                   seg[i - 1].f = "Stop" /\ seg[i - 1].args = <<FALSE>>
       /\ seg[m - 2].f = "Stop" /\ seg[m - 2].args = <<FALSE>>
       /\ seg[m - 1].f = "SetColor"
       /\ seg[m].f = "Draw"
       /\ pass = "fill" => seg[n].f = "SetWinding" /\ seg[n].args = <<TRUE>>

\* C1 amended: each pass sends Clear, then SetWinding (fill pass) or
\* SetStrokeOptions (stroke pass), then the path calls, then SetColor, then
\* Draw, and the fill pass then sends SetWinding(true).  The path calls begin
\* with Stop(false) followed by Start, every later Start is preceded by a
\* Stop(false) as well, and they end with a Stop(false); between them come
\* only Start, Line, QuadBezier, CubeBezier and Stop.
C1_PassInCodeOrder ==
    \A p \in Drawn : \A pass \in Passes :
        LET seg == PassOf(drawerCalls, p, pass)
        IN seg # <<>> => CodeOrder(seg, pass)

\* A path of two subpaths, the second closed, was filled and stroked.
C1_Witness ==
    \E p \in Drawn :
        /\ Len(SelectSeq(icon.SVGPaths[p].Path, LAMBDA o : o.op = "M")) = 2
        /\ \A pass \in Passes :
              Len(SelectSeq(PassOf(drawerCalls, p, pass),
                            LAMBDA c : c.f = "Start")) = 2

BothPaints(p) ==
    /\ icon.SVGPaths[p].Style.FillerColor # "nil"
    /\ icon.SVGPaths[p].Style.LinerColor # "nil"

\* C2: for a path with a fill paint and a stroke paint, every call of the
\* fill pass is made before the first call on the Stroker, and the Stroker
\* receives the same path calls with the same transformed points as the
\* Filler, call for call.
C2_FillBeforeStrokeSamePath ==
    \A p \in Drawn :
        BothPaints(p) =>
            /\ PassOf(drawerCalls, p, "fill") # <<>>
            /\ PassOf(drawerCalls, p, "stroke") # <<>>
            /\ \A i, j \in DOMAIN drawerCalls :
                  /\ drawerCalls[i].p = p /\ drawerCalls[i].pass = "fill"
                  /\ drawerCalls[j].p = p /\ drawerCalls[j].pass = "stroke"
                  => i < j
            /\ LET fs == PathCallsOf(PassOf(drawerCalls, p, "fill"))
                   ss == PathCallsOf(PassOf(drawerCalls, p, "stroke"))
               IN [i \in DOMAIN fs |-> <<fs[i].f, fs[i].args>>]
                    = [i \in DOMAIN ss |-> <<ss[i].f, ss[i].args>>]

\* A path with both paints and curves was drawn under a world transform and
\* a transform of its own.
C2_Witness ==
    \E p \in Drawn :
        /\ BothPaints(p)
        /\ icon.Transform # Identity
        /\ icon.SVGPaths[p].Style.transform # Identity
        /\ \E c \in DOMAIN icon.SVGPaths[p].Path :
              icon.SVGPaths[p].Path[c].op = "C"

PassIffPaint(log, n) ==
    \A p \in 1..(n - 1) :
        /\ PassOf(log, p, "fill") # <<>>
              <=> icon.SVGPaths[p].Style.FillerColor # "nil"
        /\ PassOf(log, p, "stroke") # <<>>
              <=> icon.SVGPaths[p].Style.LinerColor # "nil"

\* C3: for every path drawn, the fill pass runs iff Style.FillerColor is not
\* nil and the stroke pass runs iff Style.LinerColor is not nil, in the
\* drawTransformed built on SetupDrawers and in the one built on drawFill.
C3_PassIffPaint ==
    /\ PassIffPaint(drawerCalls, drawerPos)
    /\ PassIffPaint(driverCalls, driverPos)

\* ------------------------------------------------- claims about the parser

\* The handler of the last token was a <use> dispatched by readStartElement
\* (not recorded by <defs>) whose href passed the three checks.
UseDispatched ==
    /\ last.kind = "start"
    /\ last.se.tag = "use"
    /\ ~last.inDefs
    /\ hrefError(last.se.href, icon.defs) = ""

UsedBlock == lookupDefs(icon.defs, Tail(last.se.href))

TagsOf(block) == {block[i].Tag : i \in DOMAIN block}

\* <g> entries and endg sentinels of a block nest properly.
RECURSIVE Nested(_, _, _)
Nested(block, i, depth) ==
    IF i > Len(block) THEN depth = 0
    ELSE CASE block[i].Tag = "g" -> Nested(block, i + 1, depth + 1)
           [] block[i].Tag = "endg" ->
                depth > 0 /\ Nested(block, i + 1, depth - 1)
           [] OTHER -> Nested(block, i + 1, depth)

\* The SvgPaths the elements of block[i..] give when they stand inline where
\* the <use> is, moved by (X, Y): one per shape, styled by the shape's frame.
RECURSIVE InlinePaths(_, _, _, _, _)
InlinePaths(block, i, stack, X, Y) ==
    IF i > Len(block) THEN <<>>
    ELSE
      LET def == block[i]
          pushed == pushStyle([NewCursor EXCEPT !.styleStack = stack],
                              def.Attrs).c.styleStack
          shape == rectF([NewCursor EXCEPT !.curX = X, !.curY = Y], def.Attrs).c.path
      IN CASE def.Tag = "endg" ->
                InlinePaths(block, i + 1, SubSeq(stack, 1, Len(stack) - 1), X, Y)
           [] def.Tag = "g" -> InlinePaths(block, i + 1, pushed, X, Y)
           [] def.Tag = "rect" ->
                <<[Path |-> shape, Style |-> pushed[Len(pushed)]]>>
                    \o InlinePaths(block, i + 1, stack, X, Y)
           [] OTHER -> InlinePaths(block, i + 1, stack, X, Y)

PathsSince(n) == SubSeq(icon.SVGPaths, n + 1, Len(icon.SVGPaths))

\* C4: a <use> that replays a block of shapes and properly nested groups
\* appends the SvgPaths the block's elements would give inline at the <use>:
\* one SvgPath per shape, in definition order, each with the style frame of
\* its own element pushed over the style in effect at the <use>.
C4_ReplayAsInline ==
    (/\ UseDispatched
     /\ result = "running"
     /\ TagsOf(UsedBlock) \subseteq {"g", "rect", "endg"}
     /\ Nested(UsedBlock, 1, 0))
    => PathsSince(last.paths)
         = InlinePaths(UsedBlock, 1, last.stack, last.se.x, last.se.y)

\* C5: at every definition a <use x=X y=Y> replays, the cursor offset
\* (curX, curY) is (X, Y), also after a nested <use> of the block returned.
C5_OffsetHeldThroughReplay ==
    \A i \in DOMAIN cursor.trace :
        cursor.trace[i].tag # "endg"
          => /\ cursor.trace[i].curX = cursor.trace[i].X
             /\ cursor.trace[i].curY = cursor.trace[i].Y

\* C6: when ReadIconStream returns without error the style stack is as deep
\* as it was at the start (the one default frame).
C6_StackDepthRestored ==
    result = "ok" => Len(cursor.styleStack) = Len(NewCursor.styleStack)

\* C7 as stated: in StrictErrorMode no document holding a start element
\* outside the dispatch table, wherever it stands, parses without error.
C7_StrictRejectsEveryUnknown ==
    (errorMode = "Strict" /\ unknownRead) => result # "ok"

\* The handler of the last token brought an element outside the dispatch
\* table to the dispatcher (its style frame pushed): read by
\* readStartElement outside a recording, or reached by the replay of a <use>.
UnknownDispatched ==
    \/ /\ last.kind = "start"
       /\ ~last.inDefs
       /\ last.se.tag \notin drawFuncs
       /\ last.stack # <<>>
    \/ \E i \in DOMAIN cursor.trace :
          /\ cursor.trace[i].tag \notin drawFuncs \cup {"endg"}
          /\ cursor.trace[i].depth > 0

\* C7 amended: in StrictErrorMode ReadIconStream returns an error as soon as
\* an element outside the dispatch table reaches the dispatcher.
C7_StrictRejectsDispatchedUnknown ==
    (errorMode = "Strict" /\ UnknownDispatched) => result = "error"

\* A <use> in Strict mode replayed a block down to an unknown element.
C7_Witness ==
    /\ errorMode = "Strict"
    /\ result = "error"
    /\ last.se.tag = "use"
    /\ \E i \in DOMAIN cursor.trace : cursor.trace[i].tag = "foo"

\* C8: in Warn and Ignore modes a <use> whose block holds an element outside
\* the dispatch table still replays every definition of the block, and the
\* frame pushed for the skipped element is popped: a block that nests
\* properly leaves the style stack as the <use> found it.
C8_UnknownSkippedInReplay ==
    (/\ errorMode # "Strict"
     /\ UseDispatched
     /\ result = "running"
     /\ \E i \in DOMAIN UsedBlock : UsedBlock[i].Tag \notin drawFuncs \cup {"endg"})
    => /\ Cardinality({i \in DOMAIN cursor.trace : cursor.trace[i].lvl = 1})
            = Len(UsedBlock)
       /\ (Nested(UsedBlock, 1, 0) /\ "use" \notin TagsOf(UsedBlock)
             => cursor.styleStack = last.stack)

\* A call of useF with no href, an href without '#', or an id absent from
\* the defs table.
Refused(u) ==
    \/ u.href = <<>>
    \/ u.href[1] # "#"
    \/ Tail(u.href) \notin DOMAIN icon.defs

C10_NoStartElementIsError ==
    (result # "running" /\ ~seenTag) => result = "error"

\* The stream held text only and ended.
C10_Witness ==
    /\ result = "error"
    /\ ~seenTag
    /\ last.kind = "eof"
    /\ last.prev = "text"

\* The point a Matrix2D maps (x, y) to, in user units.
Apply(M, x, y) == <<M.A * x + M.C * y + M.E, M.B * x + M.D * y + M.F>>

\* C18: after SetTarget(x, y, w, h) the world Transform maps the corner
\* (vb.X, vb.Y) of the viewBox to (x, y) and the opposite corner
\* (vb.X + vb.W, vb.Y + vb.H) to (x + w, y + h), whenever the viewBox has a
\* width and a height.
C18_TargetMapsViewBox ==
    target.set
    => LET vb == cursor.icon.ViewBox
       IN /\ Apply(icon.Transform, vb.X, vb.Y) = <<target.x, target.y>>
          /\ Apply(icon.Transform, vb.X + vb.W, vb.Y + vb.H)
                = <<target.x + target.w, target.y + target.h>>

\* C19: Draw does not modify the SvgIcon.  When a call of Draw has returned,
\* the op lists and the Style (Style.transform included) of every SvgPath
\* and the world Transform are what they were when the call started.
C19_DrawLeavesIconUnmodified ==
    \A d \in Drawers : draws[d].pc = "done" => icon = draws[d].before

\* A call of Draw has returned that composed a world Transform other than
\* Identity with the transform of a path and drew it.
C19_Witness ==
    \E d \in Drawers :
        /\ draws[d].pc = "done"
        /\ icon.Transform # Identity
        /\ draws[d].calls # <<>>
        /\ \E p \in 1..Len(icon.SVGPaths) :
              icon.SVGPaths[p].Style.transform # Identity

\* The calls a driver receives from a Draw that runs alone.
RECURSIVE SequentialCalls(_, _)
SequentialCalls(ic, p) ==
    IF p > Len(ic.SVGPaths) THEN <<>>
    ELSE drawTransformed(ic.SVGPaths[p], p, ic.Transform) \o SequentialCalls(ic, p + 1)

\* C20: two concurrent calls of Draw on one icon, each with its own driver
\* and with no SetTarget meanwhile, never write shared state: no step of
\* either call changes the icon, and when a call returns its driver has
\* received exactly the calls of a Draw that runs alone, whatever the
\* interleaving.
C20_ConcurrentDrawsAreSequential ==
    [][\A d \in Drawers :
          draws'[d] # draws[d]
          => /\ icon' = icon
             /\ draws'[d].pc = "done"
                  => draws'[d].calls = SequentialCalls(icon', 1)]_vars

\* Both calls have returned, each ran while the other was running, and
\* their drivers received calls.
C20_Witness ==
    \A d \in Drawers :
        /\ draws[d].pc = "done"
        /\ draws[d].overlapped
        /\ draws[d].calls # <<>>

\* ------------------------------------------- claims about returned errors

\* C11 as stated: whenever ReadIconStream returns an error it also returns
\* the partially built icon, not nil.
C11_ErrorComesWithIcon ==
    result = "error" => retIcon = "icon"

IsPrefix(s, t) == Len(s) <= Len(t) /\ SubSeq(t, 1, Len(s)) = s

\* C11 amended: every error return of ReadIconStream other than the one for
\* a stream that ended before any start element (which returns a nil icon)
\* returns the icon, and the icon still holds every SvgPath emitted before
\* the token that failed.
C11_ErrorButInvalidSvgComesWithIcon ==
    [][(result = "running" /\ result' = "error" /\ last'.kind # "eof")
         => /\ retIcon' = "icon"
            /\ IsPrefix(icon.SVGPaths, icon'.SVGPaths)]_vars

\* An element handler failed after a path had been emitted.
C11_Witness ==
    /\ result = "error"
    /\ retIcon = "icon"
    /\ last.kind = "start"
    /\ last.paths > 0
    /\ Len(icon.SVGPaths) >= last.paths

\* ------------------------------------------------- claims about elements

Gradients == {"linearGradient", "radialGradient"}

\* C12: a linearGradient or radialGradient element whose id attribute is the
\* empty string makes ReadIconStream return the zero-length-id error, and no
\* gradient is registered under the empty key.
C12_EmptyGradientIdRejected ==
    (/\ last.kind = "start"
     /\ last.se.tag \in Gradients
     /\ last.se.emptyId
     /\ last.stack # <<>>)
    => /\ result = "error"
       /\ <<>> \notin cursor.icon.grads

\* C13: every SvgPath appended to SVGPaths, on a successful parse and in
\* the icon returned with an error, has a non-empty op list whose first op
\* is a Move.
C13_PathsStartWithMove ==
    \A i \in DOMAIN icon.SVGPaths :
        /\ Len(icon.SVGPaths[i].Path) > 0
        /\ icon.SVGPaths[i].Path[1].op = "M"

\* The handler of the last token dispatched the start element of a shape
\* of one of the given names (its style frame pushed).
Dispatched(tags) ==
    /\ last.kind = "start"
    /\ ~last.inDefs
    /\ last.se.tag \in tags
    /\ last.stack # <<>>

\* The paths the handler of the last token appended to SVGPaths.
Emitted == SubSeq(icon.SVGPaths, last.paths + 1, Len(icon.SVGPaths))

\* Move to the first pair of nums, a Line to each later pair, and Close for
\* a polygon, in fixed-point coordinates.
PolyOps(nums, closed) ==
    << MoveTo(nums[1] * 64, nums[2] * 64) >>
      \o [k \in 1..(Len(nums) \div 2 - 1) |->
            LineTo(nums[2 * k + 1] * 64, nums[2 * k + 2] * 64)]
      \o (IF closed THEN <<Close>> ELSE <<>>)

\* C14: a <polyline> with a points list of n >= 2 pairs emits Move to the
\* first point and a Line to each of the n - 1 others in order, a <polygon>
\* the same ops followed by Close; a list with an odd count of numbers is an
\* error.
C14_PolylineOps ==
    (Dispatched({"polyline", "polygon"}) /\ last.se.points.given)
    => LET nums == last.se.points.nums
       IN IF Len(nums) % 2 # 0 THEN result = "error"
          ELSE Len(nums) >= 4
                 => /\ result = "running"
                    /\ Len(Emitted) = 1
                    /\ Emitted[1].Path = PolyOps(nums, last.se.tag = "polygon")

Shapes == {"rect", "circle", "ellipse", "line", "polyline", "polygon", "path"}

\* The nearest open element at or above position k that has a fill
\* attribute is the one at k, and it sets a colour.
SetsFillFor(k) ==
    /\ open[k].fill \notin {NoAttr, "none"}
    /\ \A j \in (k + 1)..Len(open) : open[j].fill = NoAttr

\* C15: when an ancestor sets fill to a colour and no element between it
\* and a shape, the shape included, sets fill, the SvgPath emitted for the
\* shape has that colour as FillerColor.
C15_FillInherited ==
    (Dispatched(Shapes) /\ result = "running")
    => \A k \in 1..(Len(open) - 1) :
          SetsFillFor(k)
            => \A i \in DOMAIN Emitted :
                  Emitted[i].Style.FillerColor = open[k].fill

\* A shape two levels below the group that sets fill="red" was emitted.
C15_Witness ==
    /\ Dispatched(Shapes)
    /\ Len(open) = 3
    /\ SetsFillFor(1)
    /\ Len(Emitted) = 1
    /\ Emitted[1].Style.FillerColor = "red"

\* The name is among the attributes of the <svg> element read last.
HasAttr(name) == \E i \in DOMAIN last.se.order : last.se.order[i] = name

FourNumbers ==
    /\ Dispatched({"svg"})
    /\ HasAttr("viewBox")
    /\ Len(last.se.viewBox.nums) = 4

\* C16 as stated: a root <svg> with viewBox="a b c d" yields
\* ViewBox = (a, b, c, d) in every order of viewBox, width and height.
C16_ViewBoxAsWritten ==
    FourNumbers
    => LET n == last.se.viewBox.nums
       IN cursor.icon.ViewBox = [X |-> n[1], Y |-> n[2], W |-> n[3], H |-> n[4]]

\* C16 amended: a root <svg> with viewBox="a b c d" yields, in every order
\* of viewBox, width and height, ViewBox.X = a and ViewBox.Y = b, ViewBox.W =
\* c unless c = 0, and ViewBox.H = d unless d = 0; a zero c (or d) is
\* replaced by the value of the width (or height) attribute, 0 when the
\* element has none.
C16_ViewBoxWithFallback ==
    FourNumbers
    => LET n == last.se.viewBox.nums
           width == IF HasAttr("width") THEN last.se.w ELSE 0
           height == IF HasAttr("height") THEN last.se.h ELSE 0
       IN /\ result = "running"
          /\ cursor.icon.ViewBox =
                [X |-> n[1], Y |-> n[2],
                 W |-> IF n[3] = 0 THEN width ELSE n[3],
                 H |-> IF n[4] = 0 THEN height ELSE n[4]]

\* An <svg> whose viewBox has a zero width came after width and height.
C16_Witness ==
    /\ FourNumbers
    /\ last.se.order = <<"width", "height", "viewBox">>
    /\ last.se.viewBox.nums[3] = 0
    /\ cursor.icon.ViewBox.W = last.se.w
    /\ cursor.icon.ViewBox.X # 0

\* The element read last is a <circle> with r = 0 or a <rect> with width = 0.
ZeroShape ==
    \/ Dispatched({"circle"}) /\ last.se.r = 0
    \/ Dispatched({"rect"}) /\ last.se.w = 0

\* C17: a <circle> with r=0 and a <rect> with width=0 append no SvgPath and
\* cause no error: ReadIconStream goes on reading.
C17_ZeroShapesEmitNothing ==
    ZeroShape
    => /\ result = "running"
       /\ Emitted = <<>>
       /\ cursor.path = <<>>

\* A <rect> with width=0 was read after an element that emitted a path.
C17_Witness ==
    /\ Dispatched({"rect"})
    /\ last.se.w = 0
    /\ last.paths = 1
    /\ result = "running"

\* ------------------------------------------------ claims about the style

\* The style pushed for the start element read last.
Pushed == last.stack[Len(last.stack)]

\* C22: stroke-dasharray sets the dash array of the frame to the list it
\* holds, and the value "none" clears it: the frame of an element that
\* carries stroke-dasharray="none" has an empty dash array, whatever its
\* ancestors set.
C22_DashArraySetOrCleared ==
    (last.kind = "start" /\ last.se.dash.given /\ cursor.err = "")
    => Pushed.Dash = (IF last.se.dash.none THEN <<>> ELSE last.se.dash.nums)

\* The functions and numbers of arguments the transform parser is said to
\* accept.
Accepted(t) ==
    \/ t.name \in {"translate", "scale"} /\ Len(t.args) \in {1, 2}
    \/ t.name = "rotate" /\ Len(t.args) \in {1, 3}
    \/ t.name \in {"skewX", "skewY"} /\ Len(t.args) = 1
    \/ t.name = "matrix" /\ Len(t.args) = 6

C27_ScaleOneArgument ==
    (/\ last.kind = "start"
     /\ cursor.err = ""
     /\ Len(last.se.transform) = 1
     /\ last.se.transform[1].name = "scale"
     /\ Len(last.se.transform[1].args) = 1)
    => LET s == last.se.transform[1].args[1]
       IN Pushed.transform = Scale(last.stack[Len(last.stack) - 1].transform, s, s)

\* C28: a <polyline> or <polygon> without a points attribute appends no
\* SvgPath, whatever numbers an earlier list (a viewBox, a transform of the
\* same element, the points of an earlier polyline) left in the buffer.
C28_NoPointsNoPath ==
    (/\ last.kind = "start"
     /\ last.se.tag \in {"polyline", "polygon"}
     /\ ~last.se.points.given)
    => Len(icon.SVGPaths) = last.paths

\* C29: every SvgPath that parsing produced has Style.UseNonZeroWinding =
\* TRUE, so that the fill pass calls SetWinding(true).
C29_NonZeroWinding ==
    \A p \in 1..Len(icon.SVGPaths) : icon.SVGPaths[p].Style.UseNonZeroWinding

\* An element that asks for fill-rule="evenodd" has just appended its path.
C29_Witness ==
    /\ last.kind = "start"
    /\ last.se.rule = "evenodd"
    /\ Len(icon.SVGPaths) = last.paths + 1

\* ------------------------------------------------- claims about <defs>

\* C25: inside <defs> only a direct child of <defs> that carries an id
\* starts a new block.  An element nested deeper is appended to the block of
\* its ancestor even when it carries an id, so that every stored block holds
\* its groups whole, from the <g> entry to the matching endg sentinel.
C25_BlocksStartAtDirectChildren ==
    /\ (/\ last.kind = "start"
        /\ last.inDefs
        /\ Len(open) > 2
        /\ last.se.id # <<>>)
       => Len(cursor.currentDef) > 1
    /\ \A k \in DOMAIN icon.defs : Nested(icon.defs[k], 1, 0)

\* C24: while a well-formed document is parsed the style stack is never
\* empty where the parser reads its top (pushStyle, parseTransform, the
\* append of an SvgPath) or pops it (an end element, an endg sentinel, the
\* pop after a replayed definition): no step indexes or slices an empty
\* stack, which is a run-time panic.
C24_StyleStackNeverEmpty == result # "panic"

C21_ResolvingLeavesTableUnmodified ==
    /\ gradients.Grads = gradients.stored.Grads
    /\ \A a \in DOMAIN gradients.stored.heap :
          gradients.heap[a] = gradients.stored.heap[a]
    /\ \A k \in DOMAIN gradients.results :
          LET r == gradients.results[k]
              orig == gradients.stored.heap[gradients.stored.Grads[r.id].Stops]
          IN gradients.heap[r.grad.Stops] = filled(orig, r.clr)

\* The same gradient, one of its stops without colour, was resolved twice
\* under paints of different colours.
C21_Witness ==
    \E j, k \in DOMAIN gradients.results :
        /\ j < k
        /\ gradients.results[j].id = gradients.results[k].id
        /\ gradients.results[j].clr # gradients.results[k].clr
        /\ \E i \in DOMAIN gradients.heap[gradients.Grads[gradients.results[j].id].Stops] :
              gradients.stored.heap[gradients.stored.Grads[gradients.results[j].id].Stops][i] = "nil"

\* -------------------------------------------- claims about the PDF backend

Inside(p, r) ==
    /\ r.Min[1] <= p[1] /\ p[1] <= r.Max[1]
    /\ r.Min[2] <= p[2] /\ p[2] <= r.Max[2]

\* C30: after Clear and any sequence of Start, Line, QuadBezier and
\* CubeBezier, the bounding box of the pather contains every point passed to
\* those calls since the Clear, those of earlier subpaths included.
C30_BoundingBoxContainsPoints ==
    \A p \in pather.passed : Inside(p, pather.boundingBox)

====
